---- MODULE Spec2Model ----
(***************************************************************************)
(* A model of the Plasma runtime core (jimbxb/plasma, src/runtime):        *)
(*   - the mark/sweep heap of pz_gc.cpp (Spec),                             *)
(*   - the GC capability chain, root list and no-GC scope of               *)
(*     pz_gc_util.cpp (SpecCap, SpecRoots, SpecScope),                      *)
(*   - the loader of pz_read.cpp, section by section (SpecRead and the      *)
(*     specifications after it), and main of pz_main.cpp (SpecMain).        *)
(*                                                                         *)
(* Addresses are byte addresses, as in the C++ code; heap memory is an     *)
(* array of machine words indexed by (address - base_address) / word size  *)
(* and the bitmap has one entry per word, as Heap::cell_bits computes it.  *)
(* The page size and the size of the mapping are scaled down (PageWords,   *)
(* MaxHeapWords) so that the heap fills up after a few allocations.        *)
(***************************************************************************)
EXTENDS Integers, Sequences, FiniteSets, TLC

\* ------------------------------------------------------------------ bounds
PageWords == 2          \* machine words in one page (sysconf(_SC_PAGESIZE) / 8)
MaxHeapWords == 7       \* machine words in the mmap'd region
MaxSetWords == 5        \* machine words of the largest heap the mutator asks for
StackSlots == 1         \* words of the mutator's stack, the root range
MaxAllocWords == 2      \* largest size_in_words asked of alloc
MaxOomBytes == 3        \* largest size_bytes passed to NoGCScope::oom
MaxOomCalls == 2        \* calls of NoGCScope::oom on one scope
MaxCaps == 4            \* GCCapability objects alive at once
MaxAdds == 4            \* calls of GCTracer::add_root
NumRootAddrs == 2       \* distinct root addresses passed to add_root
MaxImports == 2         \* imports of a file
MaxDatas == 2           \* data entries of a file
MaxSlots == 1           \* elements of a data entry
MaxElements == 2        \* elements of an array read by its bytes
MaxProcs == 1           \* procedures of a file
MaxClosures == 2        \* closures of a file
MaxBlocks == 2          \* blocks of a procedure
MaxLibs == 4            \* library files of a command line
MaxRetcode == 2         \* largest return code of the interpreter
MaxOptions == 2         \* options of a file
MaxExports == 2         \* exports of a file
MaxVersion == 1         \* largest version number a file carries
MaxChain == 3           \* capabilities alive at once when tracing
MaxTraceRoots == 2      \* root slots the tracers of a chain hold together

\* ------------------------------------------------------- program constants
MACHINE_WORD_SIZE == 8
TAG_BITS == 7
GC_BITS_ALLOCATED == 1
GC_BITS_MARKED == 2
GC_BITS_VALID == 4
NULL == 0
PZ_OBJECT_MAGIC_NUMBER == 1348095744
PZ_PROGRAM_MAGIC_NUMBER == 1348096000
PZ_LIBRARY_MAGIC_NUMBER == 1348094976
PZ_FORMAT_VERSION == 0
PZ_OPT_ENTRY_CLOSURE == 0
PZ_OPT_ENTRY_CANDIDATE == 1
PZ_OPT_ENTRY_SIG_PLAIN == 0
PZ_OPT_ENTRY_SIG_ARGS == 1
EXIT_SUCCESS == 0
EXIT_FAILURE == 1
PZ_DATA_ARRAY == 0
PZ_DATA_STRUCT == 1
PZ_DATA_STRING == 2
pz_data_enc_type_normal == 0
pz_data_enc_type_fast == 16
pz_data_enc_type_wptr == 32
pz_data_enc_type_data == 48
pz_data_enc_type_import == 64
pz_data_enc_type_closure == 80
PZ_CODE_INSTR == 0
PZ_CODE_META_CONTEXT == 1
PZ_CODE_META_CONTEXT_SHORT == 2
PZ_CODE_META_CONTEXT_NIL == 3

page_size == PageWords * MACHINE_WORD_SIZE
PZ_GC_HEAP_SIZE == page_size
PZ_GC_MAX_HEAP_SIZE == MaxHeapWords * MACHINE_WORD_SIZE
\* Entries of the bitmap array, and words of the mapping.
MapWords == PZ_GC_MAX_HEAP_SIZE \div MACHINE_WORD_SIZE
\* The page-aligned address mmap returns.
MmapAddress == page_size

VARIABLES
    \* Heap (pz_gc.cpp)
    heap,           \* record: base_address, heap_size, wilderness_ptr, free_list,
                    \*         mem (the mapped words), bitmap, fault
    hstate,         \* "constructed", "ready" (init succeeded), "init_failed"
    gc_zealous,     \* Options::gc_zealous()
    stack,          \* the words of the root range, stack[0] at Heap::stack
    sp,             \* index of top_of_stack; -1 when the stack is empty
    status,         \* "running", "oom" (abort at line 165), "assert", "undefined"
    last,           \* what the last heap call did and returned
    \* NoGCScope (pz_gc_util.cpp)
    pz_dev,         \* the build defines PZ_DEV
    scope,          \* the scope object: its fields and whether it is alive
    scope_log,      \* history of the scope: the calls made on it
    \* GCCapability (pz_gc_util.cpp)
    caps,           \* the capabilities alive, oldest first; m_parent indexes it
    query,          \* the last call of can_gc and what it returned
    \* GCTracer (pz_gc_util.cpp)
    m_roots,        \* std::vector<void*> m_roots
    roots_log,      \* history of the tracer: the calls made on it
    \* read (pz_read.cpp)
    file,           \* the content of the file being read
    rd,             \* what read returned
    \* read_imports (pz_read.cpp)
    pz_libraries,   \* the libraries the runtime has, by module name
    impfile,        \* the import section of the file being read
    imported,       \* the Imported object, and what read_imports returned
    \* the sections of a file (pz_read.cpp)
    lfile,          \* the section counts and the entries read so far
    loading,        \* the LibraryLoading object: its vectors and symbols
    memory,         \* the objects allocated for the library, by address
    load,           \* the section being read and how the load stands
    \* read_code (pz_read.cpp)
    cfile,          \* the procedure entries of the file being read
    rc,             \* read_code: the pass, the procedure and what was found
    \* read: the entry closure (pz_read.cpp)
    optfile,        \* the options block of the file and its closure count
    entryload,      \* read: how far it is, mbEntry and the Library's entry
    \* main (pz_main.cpp)
    cmdline,        \* the mode Options::parse returns, the number of pzlibs
    process,        \* where main is, what it called, how the process ended
    \* GCTracer::do_trace (pz_gc_util.cpp)
    tracers,        \* the capabilities alive, each with its m_roots
    trace_log       \* the last do_trace: its tracer, the mark_root calls

heapvars == <<heap, hstate, gc_zealous, stack, sp, status, last>>
scopevars == <<scope, scope_log>>
capvars == <<caps, query>>
tracevars == <<tracers, trace_log>>
rootvars == <<m_roots, roots_log>>
readvars == <<file, rd>>
importvars == <<pz_libraries, impfile, imported>>
sectionvars == <<lfile, loading, memory, load>>
codevars == <<cfile, rc>>
entryvars == <<optfile, entryload>>
loadvars == <<importvars, sectionvars, codevars, entryvars>>
mainvars == <<cmdline, process>>

\* ------------------------------------------------------------- bit helpers
HasBit(b, m) == (b \div m) % 2 = 1
SetBit(b, m) == IF HasBit(b, m) THEN b ELSE b + m
ClearBit(b, m) == IF HasBit(b, m) THEN b - m ELSE b

REMOVE_TAG(x) == x - (x % (TAG_BITS + 1))

ALIGN_UP(x, a) == ((x + a - 1) \div a) * a

\* ---------------------------------------------------------- heap accessors
WordIndex(h, ptr) == (ptr - h.base_address) \div MACHINE_WORD_SIZE

InMapping(i) == i >= 0 /\ i < MapWords

is_heap_address(h, ptr) == ptr >= h.base_address /\ ptr < h.wilderness_ptr

\* *cell_bits(ptr); the assert(is_heap_address(ptr)) in it is checked by the
\* callers below where it can fail.
cell_bits(h, ptr) ==
    IF InMapping(WordIndex(h, ptr)) THEN h.bitmap[WordIndex(h, ptr)] ELSE 0

\* *ptr
deref(h, ptr) ==
    IF InMapping(WordIndex(h, ptr)) THEN h.mem[WordIndex(h, ptr)] ELSE 0

\* *cell_size(p_cell): the word before the cell.
cell_size(h, p_cell) == deref(h, p_cell - MACHINE_WORD_SIZE)

SetWord(h, ptr, v) ==
    IF InMapping(WordIndex(h, ptr))
    THEN [h EXCEPT !.mem[WordIndex(h, ptr)] = v]
    ELSE [h EXCEPT !.fault = TRUE]

SetBits(h, ptr, b) ==
    IF InMapping(WordIndex(h, ptr))
    THEN [h EXCEPT !.bitmap[WordIndex(h, ptr)] = b]
    ELSE [h EXCEPT !.fault = TRUE]

SetSize(h, p_cell, v) == SetWord(h, p_cell - MACHINE_WORD_SIZE, v)

Fault(h) == [h EXCEPT !.fault = TRUE]

\* is_valid_object that does not ask for the allocated bit.
is_valid_object_any(h, ptr) ==
    /\ is_heap_address(h, ptr)
    /\ HasBit(cell_bits(h, ptr), GC_BITS_VALID)

is_valid_object(h, ptr) ==
    /\ is_heap_address(h, ptr)
    /\ HasBit(cell_bits(h, ptr), GC_BITS_ALLOCATED)
    /\ HasBit(cell_bits(h, ptr), GC_BITS_VALID)

\* ------------------------------------------------------------ try_allocate
\* The walk over the free list that settles for the first cell that fits.
RECURSIVE free_list_search_first(_, _, _, _, _, _, _)
free_list_search_first(h, cell, prev_cell, best, prev_best, size_in_words, fuel) ==
    IF cell = NULL
    THEN [best |-> best, prev_best |-> prev_best, fault |-> FALSE]
    ELSE IF \/ fuel = 0
            \/ ~is_heap_address(h, cell)
            \/ cell_bits(h, cell) # GC_BITS_VALID
            \/ cell_size(h, cell) = 0
    THEN [best |-> NULL, prev_best |-> NULL, fault |-> TRUE]
    ELSE IF cell_size(h, cell) >= size_in_words /\ best = NULL
    THEN free_list_search_first(h, deref(h, cell), cell, cell, prev_cell,
                                size_in_words, fuel - 1)
    ELSE free_list_search_first(h, deref(h, cell), cell, best, prev_best,
                                size_in_words, fuel - 1)

\* The walk over the free list (lines 189-209).  fuel stops the walk of a
\* cyclic list, which the code would never leave.
RECURSIVE free_list_search(_, _, _, _, _, _, _)
free_list_search(h, cell, prev_cell, best, prev_best, size_in_words, fuel) ==
    IF cell = NULL
    THEN [best |-> best, prev_best |-> prev_best, fault |-> FALSE]
    ELSE IF \/ fuel = 0
            \/ ~is_heap_address(h, cell)
            \/ cell_bits(h, cell) # GC_BITS_VALID
            \/ cell_size(h, cell) = 0
    THEN [best |-> NULL, prev_best |-> NULL, fault |-> TRUE]
    ELSE IF /\ cell_size(h, cell) >= size_in_words
            /\ \/ best = NULL
               \/ cell_size(h, cell) < cell_size(h, best)
    THEN free_list_search(h, deref(h, cell), cell, cell, prev_cell,
                          size_in_words, fuel - 1)
    ELSE free_list_search(h, deref(h, cell), cell, best, prev_best,
                          size_in_words, fuel - 1)

\* Lines 212-217: unlink best from the free list.
unlink_best(h, best, prev_best) ==
    IF prev_best = NULL
    THEN (IF h.free_list = best
          THEN [h EXCEPT !.free_list = deref(h, best)]
          ELSE Fault(h))
    ELSE SetWord(h, prev_best, deref(h, best))

\* The assertion of lines 228-229 and of lines 398-399: the cell that ends
\* at end is the last one, or the cell after it is valid.
next_cell_valid(h, end) ==
    \/ end = h.wilderness_ptr
    \/ /\ is_heap_address(h, end + MACHINE_WORD_SIZE)
       /\ HasBit(cell_bits(h, end + MACHINE_WORD_SIZE), GC_BITS_VALID)

\* *cell = free_list; free_list = cell (lines 235-236 and 378-379).
push_free(h, cell) == [SetWord(h, cell, h.free_list) EXCEPT !.free_list = cell]

\* split_cell that forgets to put the remainder on the free list.
split_cell_drop_rest(h, best, size_in_words, old_size, next_cell) ==
    SetBits(SetSize(SetSize(h, best, size_in_words),
                    next_cell, old_size - (size_in_words + 1)),
            next_cell, GC_BITS_VALID)

\* Lines 231-236: shrink best and make a free cell of the remainder.
split_cell(h, best, size_in_words, old_size, next_cell) ==
    push_free(SetBits(SetSize(SetSize(h, best, size_in_words),
                              next_cell, old_size - (size_in_words + 1)),
                      next_cell, GC_BITS_VALID),
              next_cell)

\* Lines 223-244: split best when it has at least two words more than asked.
shrink_best(h, best, size_in_words) ==
    IF cell_size(h, best) < size_in_words + 2 THEN h
    ELSE IF ~next_cell_valid(h, best + cell_size(h, best) * MACHINE_WORD_SIZE)
    THEN Fault(h)
    ELSE split_cell(h, best, size_in_words, cell_size(h, best),
                    best + (size_in_words + 1) * MACHINE_WORD_SIZE)

\* Lines 210-251: unlink best, set its allocated bit, shrink it.
alloc_from_free_list(h, best, prev_best, size_in_words) ==
    [h |-> shrink_best(SetBits(unlink_best(h, best, prev_best), best,
                               GC_BITS_VALID + GC_BITS_ALLOCATED),
                       best, size_in_words),
     cell |-> best]

\* Lines 262-271, the wilderness pointer already moved: the size word and
\* the bits of the new cell.
init_cell(h, cell, size_in_words) ==
    IF cell_size(h, cell) # 0 \/ cell_bits(h, cell) # 0
    THEN Fault(h)
    ELSE SetBits(SetSize(h, cell, size_in_words), cell,
                 GC_BITS_ALLOCATED + GC_BITS_VALID)

\* alloc_from_wilderness that moves the wilderness pointer by the size asked
\* without the word for the size.
alloc_from_wilderness_short(h, size_in_words) ==
    IF h.wilderness_ptr + (size_in_words + 1) * MACHINE_WORD_SIZE
           > h.base_address + h.heap_size
    THEN [h |-> h, cell |-> NULL]
    ELSE [h |-> init_cell([h EXCEPT !.wilderness_ptr =
                              @ + size_in_words * MACHINE_WORD_SIZE],
                          h.wilderness_ptr + MACHINE_WORD_SIZE, size_in_words),
          cell |-> h.wilderness_ptr + MACHINE_WORD_SIZE]

\* Lines 253-279: bump the wilderness pointer.  A cell past the end of the
\* mapping is a write outside the mmap'd region and the bitmap array.
alloc_from_wilderness(h, size_in_words) ==
    IF h.wilderness_ptr + (size_in_words + 1) * MACHINE_WORD_SIZE
           > h.base_address + h.heap_size
    THEN [h |-> h, cell |-> NULL]
    ELSE IF ~InMapping(WordIndex(h, h.wilderness_ptr + MACHINE_WORD_SIZE))
    THEN [h |-> [h EXCEPT !.undefined = TRUE], cell |-> NULL]
    ELSE [h |-> init_cell([h EXCEPT !.wilderness_ptr =
                              @ + (size_in_words + 1) * MACHINE_WORD_SIZE],
                          h.wilderness_ptr + MACHINE_WORD_SIZE, size_in_words),
          cell |-> h.wilderness_ptr + MACHINE_WORD_SIZE]

\* Lines 210 and 253: the free list when the walk found a cell, the
\* wilderness otherwise.
allocate_best(h, s, size_in_words) ==
    IF s.fault THEN [h |-> Fault(h), cell |-> NULL]
    ELSE IF s.best # NULL
    THEN alloc_from_free_list(h, s.best, s.prev_best, size_in_words)
    ELSE alloc_from_wilderness(h, size_in_words)

try_allocate(h, size_in_words) ==
    allocate_best(h, free_list_search(h, h.free_list, NULL, NULL, NULL,
                                      size_in_words, MapWords),
                  size_in_words)

\* -------------------------------------------------------------------- mark
\* Heap::mark: set the mark bit, then scan the cell's words and recurse into
\* every unmarked valid object.  num_marked, which collect sums up over the
\* calls of mark, is kept with the heap while a collection runs.  A marking
\* that has made more calls than the mapping has words is cut off there:
\* the code would go on.
RECURSIVE mark(_, _)
RECURSIVE mark_scan(_, _, _, _)

\* The marking step that takes every address of the heap for an object.
mark_word_unchecked(h, cur) ==
    IF /\ is_heap_address(h, cur)
       /\ ~HasBit(cell_bits(h, cur), GC_BITS_MARKED)
    THEN mark(h, cur)
    ELSE h

\* The marking step that does not look at the mark bit.
mark_word_again(h, cur) ==
    IF is_valid_object(h, cur) THEN mark(h, cur) ELSE h

\* The body of both marking loops (lines 301-307 and 340-345).
mark_word(h, cur) ==
    IF /\ is_valid_object(h, cur)
       /\ ~HasBit(cell_bits(h, cur), GC_BITS_MARKED)
    THEN mark(h, cur)
    ELSE h

\* mark_scan with a loop that stops one word early.
mark_scan_short(h, ptr, k, size) ==
    IF k >= size - 1
    THEN h
    ELSE mark_scan(mark_word(h, REMOVE_TAG(deref(h, ptr + k * MACHINE_WORD_SIZE))),
                   ptr, k + 1, size)

\* The loop of Heap::mark (line 339), k words of the cell done.
mark_scan(h, ptr, k, size) ==
    IF k >= size
    THEN h
    ELSE mark_scan(mark_word(h, REMOVE_TAG(deref(h, ptr + k * MACHINE_WORD_SIZE))),
                   ptr, k + 1, size)

mark(h, ptr) ==
    IF h.num_marked > MapWords THEN h
    ELSE mark_scan(SetBits([h EXCEPT !.num_marked = @ + 1], ptr,
                           SetBit(cell_bits(h, ptr), GC_BITS_MARKED)),
                   ptr, 0, cell_size(h, ptr))

\* The loop over the root words, lines 297-308.
RECURSIVE mark_roots(_, _, _, _)
mark_roots(h, stk, p_cur, top_of_stack) ==
    IF p_cur > top_of_stack
    THEN h
    ELSE mark_roots(mark_word(h, REMOVE_TAG(stk[p_cur])), stk, p_cur + 1,
                    top_of_stack)

\* ------------------------------------------------------------------- sweep
\* The assertions of lines 397-399.
sweep_asserts(h, end) ==
    IF end <= h.wilderness_ptr /\ next_cell_valid(h, end) THEN h ELSE Fault(h)

\* sweep_unmarked that leaves the bits of a cell merged into a run alone.
sweep_unmarked_keep_bits(h, p_cell, p_first_in_run, old_size) ==
    IF p_first_in_run = NULL
    THEN SetBits(push_free(h, p_cell), p_cell,
                 ClearBit(cell_bits(h, p_cell), GC_BITS_ALLOCATED))
    ELSE h

\* One iteration of the while loop of Heap::sweep for an unmarked cell
\* (lines 369-406).
sweep_unmarked(h, p_cell, p_first_in_run, old_size) ==
    sweep_asserts(IF p_first_in_run = NULL
                  THEN SetBits(push_free(h, p_cell), p_cell,
                               ClearBit(cell_bits(h, p_cell), GC_BITS_ALLOCATED))
                  ELSE SetBits(h, p_cell, 0),
                  p_cell + old_size * MACHINE_WORD_SIZE)

\* clear_mark that clears the allocated bit with the mark bit.
clear_mark_free(h, p_cell) == SetBits(h, p_cell, GC_BITS_VALID)

\* clear_mark that leaves the mark bit set.
clear_mark_keep(h, p_cell) ==
    IF HasBit(cell_bits(h, p_cell), GC_BITS_ALLOCATED) THEN h ELSE Fault(h)

\* Lines 408-410: a marked cell is allocated; clear its mark bit.
clear_mark(h, p_cell) ==
    IF HasBit(cell_bits(h, p_cell), GC_BITS_ALLOCATED)
    THEN SetBits(h, p_cell, ClearBit(cell_bits(h, p_cell), GC_BITS_MARKED))
    ELSE Fault(h)

\* fixup_size that leaves the size of the first cell of a run as it was.
fixup_size_none(h, p_first_in_run, end) == h

\* "fixup size" (lines 412-416 and 422-427): the run of free cells that
\* started at p_first_in_run ends at end.
fixup_size(h, p_first_in_run, end) ==
    IF p_first_in_run # NULL
    THEN SetSize(h, p_first_in_run,
                 (end - p_first_in_run) \div MACHINE_WORD_SIZE)
    ELSE h

\* One iteration for a marked cell (lines 407-417).
sweep_marked(h, p_cell, p_first_in_run) ==
    fixup_size(clear_mark(h, p_cell), p_first_in_run,
               p_cell - MACHINE_WORD_SIZE)

\* The while loop of Heap::sweep and the fixup after it.  fuel is the number
\* of iterations still to run: with less than the loop needs the result is
\* the heap as the loop has it after that many.
RECURSIVE sweep_loop(_, _, _, _)
sweep_loop(h, p_cell, p_first_in_run, fuel) ==
    IF h.fault THEN h
    ELSE IF p_cell >= h.wilderness_ptr
    THEN fixup_size(h, p_first_in_run, h.wilderness_ptr)
    ELSE IF fuel = 0 THEN h
    ELSE IF cell_size(h, p_cell) = 0
            \/ ~HasBit(cell_bits(h, p_cell), GC_BITS_VALID)
    THEN Fault(h)
    ELSE IF ~HasBit(cell_bits(h, p_cell), GC_BITS_MARKED)
    THEN sweep_loop(sweep_unmarked(h, p_cell, p_first_in_run,
                                   cell_size(h, p_cell)),
                    p_cell + (cell_size(h, p_cell) + 1) * MACHINE_WORD_SIZE,
                    IF p_first_in_run = NULL THEN p_cell ELSE p_first_in_run,
                    fuel - 1)
    ELSE sweep_loop(sweep_marked(h, p_cell, p_first_in_run),
                    p_cell + (cell_size(h, p_cell) + 1) * MACHINE_WORD_SIZE,
                    NULL, fuel - 1)

\* Heap::sweep, the first fuel iterations of its loop.
sweep_first(h, fuel) ==
    sweep_loop([h EXCEPT !.free_list = NULL],
               h.base_address + MACHINE_WORD_SIZE, NULL, fuel)

\* Heap::sweep: no heap has as many cells as the mapping has words.
sweep(h) == sweep_first(h, MapWords)

\* ----------------------------------------------------------------- collect
\* The scan of check_heap, lines 509-525: the word cur is the cell the
\* last one announced, valid and of a size above 0, or its bits are 0.
RECURSIVE check_cells(_, _, _)
check_cells(h, cur, next_valid) ==
    IF cur >= h.wilderness_ptr THEN TRUE
    ELSE IF cur = next_valid
    THEN /\ HasBit(cell_bits(h, cur), GC_BITS_VALID)
         /\ cell_size(h, cur) > 0
         /\ check_cells(h, cur + MACHINE_WORD_SIZE,
                        cur + (cell_size(h, cur) + 1) * MACHINE_WORD_SIZE)
    ELSE /\ cell_bits(h, cur) = 0
         /\ check_cells(h, cur + MACHINE_WORD_SIZE, next_valid)

\* The walk of check_heap over the free list, lines 527-534.
RECURSIVE check_free_list(_, _, _)
check_free_list(h, cur, fuel) ==
    IF cur = NULL THEN TRUE
    ELSE IF fuel = 0 \/ ~is_heap_address(h, cur) THEN FALSE
    ELSE /\ cell_bits(h, cur) = GC_BITS_VALID
         /\ check_free_list(h, deref(h, cur), fuel - 1)

\* The assertions of lines 500-507, before the scans.
check_sizes(h) ==
    /\ h.base_address # NULL
    /\ h.heap_size >= page_size
    /\ h.heap_size % page_size = 0
    /\ h.wilderness_ptr # NULL
    /\ h.base_address < h.wilderness_ptr
    /\ h.wilderness_ptr < h.base_address + h.heap_size

\* Heap::check_heap: TRUE when none of its assertions fails.
check_heap(h) ==
    /\ check_sizes(h)
    /\ check_cells(h, h.base_address, h.base_address + MACHINE_WORD_SIZE)
    /\ check_free_list(h, h.free_list, MapWords)

\* Lines 290-294 and 322-326: check_heap runs when gc_slow_asserts is on.
slow_assert(h) ==
    IF h.gc_slow_asserts /\ ~h.fault /\ ~check_heap(h) THEN Fault(h) ELSE h

\* Lines 296-320: mark from the roots and sweep; num_marked goes with the
\* call.
mark_and_sweep(h, stk, top_of_stack) ==
    IF h.fault THEN h
    ELSE [sweep(mark_roots(h, stk, 0, top_of_stack)) EXCEPT !.num_marked = 0]

collect(h, stk, top_of_stack) ==
    slow_assert(mark_and_sweep(slow_assert(h), stk, top_of_stack))

\* ------------------------------------------------------------------- alloc
\* The first attempt that zealous mode does not skip.
first_attempt_always(h, size_in_words, zealous) ==
    try_allocate(h, size_in_words)

\* Lines 149-158: the first attempt, which zealous mode skips once the heap
\* is in use.
first_attempt(h, size_in_words, zealous) ==
    IF zealous /\ h.wilderness_ptr > h.base_address
    THEN [h |-> h, cell |-> NULL]
    ELSE try_allocate(h, size_in_words)

\* Line 161: the second attempt, which a collection that ended in a failed
\* assertion does not get to.
retry(h, size_in_words) ==
    IF h.fault THEN [h |-> h, cell |-> NULL] ELSE try_allocate(h, size_in_words)

\* Lines 162-166: abort() when the second attempt fails.
second_attempt(second) ==
    [h |-> second.h, cell |-> second.cell, collections |-> 1,
     oom |-> second.cell = NULL /\ ~second.h.fault /\ ~second.h.undefined]

\* alloc_collect that gives up after the collection without a second
\* attempt.
alloc_collect_no_retry(first, size_in_words, stk, top_of_stack) ==
    IF first.cell # NULL \/ first.h.fault \/ first.h.undefined
    THEN [h |-> first.h, cell |-> first.cell, collections |-> 0, oom |-> FALSE]
    ELSE [h |-> collect(first.h, stk, top_of_stack), cell |-> NULL,
          collections |-> 1, oom |-> TRUE]

\* Lines 159-169: collect and try again when the first attempt gave NULL.
alloc_collect(first, size_in_words, stk, top_of_stack) ==
    IF first.cell # NULL \/ first.h.fault \/ first.h.undefined
    THEN [h |-> first.h, cell |-> first.cell, collections |-> 0, oom |-> FALSE]
    ELSE second_attempt(retry(collect(first.h, stk, top_of_stack),
                              size_in_words))

\* Heap::alloc.  The result records the cell, how many collections ran and
\* whether the call ended in abort() (line 165).
alloc(h, size_in_words, stk, top_of_stack, zealous) ==
    IF size_in_words <= 0
    THEN [h |-> Fault(h), cell |-> NULL, collections |-> 0, oom |-> FALSE]
    ELSE alloc_collect(first_attempt(h, size_in_words, zealous),
                       size_in_words, stk, top_of_stack)

alloc_bytes(h, size_in_bytes, stk, top_of_stack, zealous) ==
    alloc(h, ALIGN_UP(size_in_bytes, MACHINE_WORD_SIZE) \div MACHINE_WORD_SIZE,
          stk, top_of_stack, zealous)

\* ----------------------------------------------------------- set_heap_size
\* set_heap_size without the comparison against the wilderness pointer.
set_heap_size_unchecked(h, new_size) ==
    IF new_size < page_size THEN [h |-> h, result |-> FALSE]
    ELSE [h |-> [h EXCEPT !.heap_size = new_size], result |-> TRUE]

set_heap_size(h, new_size) ==
    IF new_size < page_size THEN [h |-> h, result |-> FALSE]
    ELSE IF h.base_address + new_size < h.wilderness_ptr
    THEN [h |-> h, result |-> FALSE]
    ELSE [h |-> [h EXCEPT !.heap_size = new_size], result |-> TRUE]

\* ------------------------------------------------------------------ Heap()
\* The constructor: no mapping yet, the bitmap zeroed.
HeapConstructed ==
    [base_address |-> NULL,
     heap_size |-> PZ_GC_HEAP_SIZE,
     wilderness_ptr |-> NULL,
     free_list |-> NULL,
     mem |-> [i \in 0..(MapWords - 1) |-> 0],
     bitmap |-> [i \in 0..(MapWords - 1) |-> 0],
     fault |-> FALSE,
     undefined |-> FALSE,
     num_marked |-> 0,
     gc_slow_asserts |-> FALSE]

\* Heap::init when mmap succeeds: fresh anonymous pages are zero.
heap_init(h) ==
    [h EXCEPT !.base_address = MmapAddress, !.wilderness_ptr = MmapAddress]

\* ------------------------------------------------------------- the mutator
\* The values the caller of the heap passes to set_heap_size, in bytes: less
\* than a page, a page, a page and a word, and the largest heap it asks for.
HeapSizeInputs ==
    {page_size - MACHINE_WORD_SIZE, page_size, page_size + MACHINE_WORD_SIZE,
     MaxSetWords * MACHINE_WORD_SIZE}

\* The size the caller passes to alloc_bytes: not a whole number of words.
AllocByteInputs == {MaxAllocWords * MACHINE_WORD_SIZE - TAG_BITS}

\* The mutator keeps its pointers tagged: the low bits it puts on every
\* pointer alloc returns.
CallerTag == TAG_BITS

\* What the heap call that has just returned did; NoCall once the mutator
\* has moved on.
NoCall == [op |-> "none", size |-> 0, cell |-> NULL, collections |-> 0,
           result |-> TRUE]

StatusOf(h, oom) ==
    IF h.undefined THEN "undefined"
    ELSE IF h.fault THEN "assert"
    ELSE IF oom THEN "oom"
    ELSE "running"

HeapInitState ==
    /\ heap = HeapConstructed
    /\ hstate = "constructed"
    /\ gc_zealous \in BOOLEAN
    /\ stack = [i \in 0..(StackSlots - 1) |-> 0]
    /\ sp = -1
    /\ status = "running"
    /\ last = NoCall

\* The heap of a process started with gc_slow_asserts.
SlowInitState ==
    /\ heap = [HeapConstructed EXCEPT !.gc_slow_asserts = TRUE]
    /\ hstate = "constructed"
    /\ gc_zealous \in BOOLEAN
    /\ stack = [i \in 0..(StackSlots - 1) |-> 0]
    /\ sp = -1
    /\ status = "running"
    /\ last = NoCall

\* Heap::init
HeapInit ==
    /\ hstate = "constructed"
    /\ \/ /\ hstate' = "ready"
          /\ heap' = heap_init(heap)
       \/ /\ hstate' = "init_failed"
          /\ heap' = heap
    /\ UNCHANGED <<gc_zealous, stack, sp, status, last>>
    /\ UNCHANGED <<pz_dev, scopevars, capvars, tracevars, rootvars, readvars,
                   loadvars, mainvars>>

Ready == hstate = "ready" /\ status = "running"

\* The caller's part of an allocation: the returned pointer, with the tag
\* the caller gives it, is pushed on the stack.
PushResult(r, t) ==
    IF r.cell # NULL /\ StatusOf(r.h, r.oom) = "running"
    THEN /\ sp' = sp + 1
         /\ stack' = [stack EXCEPT ![sp + 1] = r.cell + t]
    ELSE UNCHANGED <<stack, sp>>

\* An allocation call returns r (or aborts).
AllocReturns(r, op, size) ==
    /\ heap' = r.h
    /\ status' = StatusOf(r.h, r.oom)
    /\ last' = [op |-> op, size |-> size, cell |-> r.cell,
                collections |-> r.collections, result |-> ~r.oom]
    /\ PushResult(r, CallerTag)

Alloc(n) ==
    /\ Ready
    /\ sp < StackSlots - 1
    /\ AllocReturns(alloc(heap, n, stack, sp, gc_zealous), "alloc", n)
    /\ UNCHANGED <<hstate, gc_zealous>>
    /\ UNCHANGED <<pz_dev, scopevars, capvars, tracevars, rootvars, readvars,
                   loadvars, mainvars>>

AllocBytes(b) ==
    /\ Ready
    /\ sp < StackSlots - 1
    /\ AllocReturns(alloc_bytes(heap, b, stack, sp, gc_zealous),
                    "alloc_bytes", b)
    /\ UNCHANGED <<hstate, gc_zealous>>
    /\ UNCHANGED <<pz_dev, scopevars, capvars, tracevars, rootvars, readvars,
                   loadvars, mainvars>>

CollectReturns(h) ==
    /\ heap' = h
    /\ status' = StatusOf(h, FALSE)

Collect ==
    /\ Ready
    /\ CollectReturns(collect(heap, stack, sp))
    /\ last' = [op |-> "collect", size |-> 0, cell |-> NULL,
                collections |-> 1, result |-> TRUE]
    /\ UNCHANGED <<hstate, gc_zealous, stack, sp>>
    /\ UNCHANGED <<pz_dev, scopevars, capvars, tracevars, rootvars, readvars,
                   loadvars, mainvars>>

SetHeapSizeReturns(r, new_size) ==
    /\ heap' = r.h
    /\ last' = [op |-> "set_heap_size", size |-> new_size,
                cell |-> NULL, collections |-> 0, result |-> r.result]

SetHeapSize(new_size) ==
    /\ Ready
    /\ SetHeapSizeReturns(set_heap_size(heap, new_size), new_size)
    /\ UNCHANGED <<hstate, gc_zealous, stack, sp, status>>
    /\ UNCHANGED <<pz_dev, scopevars, capvars, tracevars, rootvars, readvars,
                   loadvars, mainvars>>

\* An allocation for a field returns r: the caller writes the tagged
\* pointer at the address field.
FieldReturns(r, n, field) ==
    /\ heap' = IF r.cell # NULL /\ StatusOf(r.h, r.oom) = "running"
               THEN SetWord(r.h, field, r.cell + CallerTag)
               ELSE r.h
    /\ status' = StatusOf(r.h, r.oom)
    /\ last' = [op |-> "alloc_field", size |-> n, cell |-> r.cell,
                collections |-> r.collections, result |-> ~r.oom]

\* An allocation whose result the caller writes into word k of the object
\* the top of its stack points to (the object is a root during the call).
AllocField(n, i, k) ==
    /\ Ready
    /\ i = sp
    /\ is_valid_object(heap, REMOVE_TAG(stack[i]))
    /\ k < cell_size(heap, REMOVE_TAG(stack[i]))
    /\ FieldReturns(alloc(heap, n, stack, sp, gc_zealous), n,
                    REMOVE_TAG(stack[i]) + k * MACHINE_WORD_SIZE)
    /\ UNCHANGED <<hstate, gc_zealous, stack, sp>>
    /\ UNCHANGED <<pz_dev, scopevars, capvars, tracevars, rootvars, readvars,
                   loadvars, mainvars>>

\* The mutator pops a word; the dead slot is not read again before it is
\* written, so its content is dropped.
Pop ==
    /\ Ready
    /\ sp >= 0
    /\ sp' = sp - 1
    /\ stack' = [stack EXCEPT ![sp] = 0]
    /\ last' = NoCall
    /\ UNCHANGED <<heap, hstate, gc_zealous, status>>
    /\ UNCHANGED <<pz_dev, scopevars, capvars, tracevars, rootvars, readvars,
                   loadvars, mainvars>>

\* The words the mutator has at hand to store: null and its live stack words.
StoreValues == {NULL} \cup {stack[j] : j \in 0..sp}

\* The mutator writes word k of the object live stack word i points to.
Store(i, k, v) ==
    /\ Ready
    /\ i <= sp
    /\ is_valid_object(heap, REMOVE_TAG(stack[i]))
    /\ k < cell_size(heap, REMOVE_TAG(stack[i]))
    /\ heap' = SetWord(heap, REMOVE_TAG(stack[i]) + k * MACHINE_WORD_SIZE, v)
    /\ last' = NoCall
    /\ UNCHANGED <<hstate, gc_zealous, stack, sp, status>>
    /\ UNCHANGED <<pz_dev, scopevars, capvars, tracevars, rootvars, readvars,
                   loadvars, mainvars>>

HeapNext ==
    \/ HeapInit
    \/ \E n \in 1..MaxAllocWords : Alloc(n)
    \/ \E b \in AllocByteInputs : AllocBytes(b)
    \/ \E n \in 1..MaxAllocWords, i \in 0..(StackSlots - 1),
          k \in 0..(MaxAllocWords + 1) : AllocField(n, i, k)
    \/ Collect
    \/ \E s \in HeapSizeInputs : SetHeapSize(s)
    \/ Pop
    \/ \E i \in 0..(StackSlots - 1), k \in 0..(MaxAllocWords + 1),
          v \in StoreValues : Store(i, k, v)

\* A size above that of the mapping, a whole number of pages when the
\* mapping is: set_heap_size takes any size_t.
OverMaxSizes == {2 * PZ_GC_MAX_HEAP_SIZE}

\* The heap with a caller that also asks for a heap larger than the mapping.
MaxNext ==
    \/ HeapNext
    \/ \E s \in OverMaxSizes : SetHeapSize(s)

\* ------------------------------------------------- try_allocate on its own
\* A heap of the whole mapping filled from the wilderness with cells of the
\* sizes given, and the address of each cell.
RECURSIVE fill(_, _, _, _)
fill(h, sizes, k, cells) ==
    IF k > Len(sizes) THEN [h |-> h, cells |-> cells]
    ELSE fill(try_allocate(h, sizes[k]).h, sizes, k + 1,
              Append(cells, try_allocate(h, sizes[k]).cell))

MappedHeap ==
    set_heap_size(heap_init(HeapConstructed), PZ_GC_MAX_HEAP_SIZE).h

\* The sizes of the cells that fill a heap: each from 1 to MaxAllocWords,
\* the cells and their size words no more than the mapping.
RECURSIVE WordsOf(_, _)
WordsOf(sizes, k) ==
    IF k = 0 THEN 0 ELSE sizes[k] + 1 + WordsOf(sizes, k - 1)

FillSizes ==
    {sizes \in UNION {[1..n -> 1..MaxAllocWords] : n \in 1..(MapWords \div 2)} :
        WordsOf(sizes, Len(sizes)) <= MapWords}

\* The root words that keep the cells of kept alive.
roots_of(cells, kept) ==
    [j \in 0..(Len(cells) - 1) |->
        IF (j + 1) \in kept THEN cells[j + 1] ELSE NULL]

\* The heap after a collection that found the cells of kept reachable.
collected(f, kept) ==
    collect(f.h, roots_of(f.cells, kept), Len(f.cells) - 1)

FitInitState ==
    /\ \E sizes \in FillSizes :
          \E kept \in SUBSET (1..Len(sizes)) :
             heap = collected(fill(MappedHeap, sizes, 1, <<>>), kept)
    /\ hstate = "ready"
    /\ gc_zealous = FALSE
    /\ stack = [i \in 0..(StackSlots - 1) |-> 0]
    /\ sp = -1
    /\ status = "running"
    /\ last = NoCall

\* One call of try_allocate.
TryAllocate(n) ==
    /\ Ready
    /\ heap' = try_allocate(heap, n).h
    /\ status' = StatusOf(try_allocate(heap, n).h, FALSE)
    /\ last' = [op |-> "try_allocate", size |-> n,
                cell |-> try_allocate(heap, n).cell, collections |-> 0,
                result |-> try_allocate(heap, n).cell # NULL]
    /\ UNCHANGED <<hstate, gc_zealous, stack, sp>>
    /\ UNCHANGED <<pz_dev, scopevars, capvars, tracevars, rootvars, readvars,
                   loadvars, mainvars>>

FitNext == \E n \in 1..MaxAllocWords : TryAllocate(n)

\* ================================================================ NoGCScope
NoScope == [state |-> "none", m_needs_check |-> FALSE, m_did_oom |-> FALSE,
            m_oom_size |-> 0]

NoScopeLog == [op |-> "none", first_oom |-> 0, last_oom |-> 0, ooms |-> 0,
               checked |-> FALSE]

\* NoGCScope::NoGCScope.  m_oom_size is not initialised: it holds whatever
\* the memory held (junk).  m_needs_check exists in PZ_DEV builds only.
NoGCScope_ctor(dev, junk) ==
    [state |-> "alive", m_needs_check |-> dev, m_did_oom |-> FALSE,
     m_oom_size |-> junk]

\* NoGCScope::oom that records every failure.
NoGCScope_oom_overwrite(s, size_bytes) ==
    [s EXCEPT !.m_did_oom = TRUE, !.m_oom_size = size_bytes]

\* NoGCScope::oom
NoGCScope_oom(s, size_bytes) ==
    IF ~s.m_did_oom
    THEN [s EXCEPT !.m_did_oom = TRUE, !.m_oom_size = size_bytes]
    ELSE s

\* NoGCScope::is_oom: the scope has been checked; returns m_did_oom.
is_oom(s) == [s |-> [s EXCEPT !.m_needs_check = FALSE], result |-> s.m_did_oom]

\* NoGCScope::abort_for_oom_slow
abort_for_oom_slow(s) == [s EXCEPT !.state = "aborted"]

\* NoGCScope::abort_if_oom
abort_if_oom(s) ==
    IF is_oom(s).result THEN abort_for_oom_slow(is_oom(s).s) ELSE is_oom(s).s

\* NoGCScope::~NoGCScope
NoGCScope_dtor(s, dev) ==
    IF dev /\ s.m_needs_check THEN [s EXCEPT !.state = "aborted"]
    ELSE IF s.m_did_oom THEN [s EXCEPT !.state = "aborted"]
    ELSE [s EXCEPT !.state = "destroyed"]

ScopeInitState ==
    /\ pz_dev \in BOOLEAN
    /\ scope = NoScope
    /\ scope_log = NoScopeLog

ScopeEnter(junk) ==
    /\ scope.state \in {"none", "destroyed"}
    /\ scope' = NoGCScope_ctor(pz_dev, junk)
    /\ scope_log' = [NoScopeLog EXCEPT !.op = "ctor"]
    /\ UNCHANGED <<pz_dev, heapvars, capvars, tracevars, rootvars, readvars,
                   loadvars, mainvars>>

\* An allocation through the scope has failed: the heap calls oom.
ScopeOom(size_bytes) ==
    /\ scope.state = "alive"
    /\ scope_log.ooms < MaxOomCalls
    /\ scope' = NoGCScope_oom(scope, size_bytes)
    /\ scope_log' = [scope_log EXCEPT
                        !.op = "oom",
                        !.first_oom = IF scope_log.ooms = 0 THEN size_bytes
                                      ELSE scope_log.first_oom,
                        !.last_oom = size_bytes,
                        !.ooms = scope_log.ooms + 1]
    /\ UNCHANGED <<pz_dev, heapvars, capvars, tracevars, rootvars, readvars,
                   loadvars, mainvars>>

ScopeIsOom ==
    /\ scope.state = "alive"
    /\ scope' = is_oom(scope).s
    /\ scope_log' = [scope_log EXCEPT !.op = "is_oom", !.checked = TRUE]
    /\ UNCHANGED <<pz_dev, heapvars, capvars, tracevars, rootvars, readvars,
                   loadvars, mainvars>>

ScopeAbortIfOom ==
    /\ scope.state = "alive"
    /\ scope' = abort_if_oom(scope)
    /\ scope_log' = [scope_log EXCEPT !.op = "abort_if_oom", !.checked = TRUE]
    /\ UNCHANGED <<pz_dev, heapvars, capvars, tracevars, rootvars, readvars,
                   loadvars, mainvars>>

ScopeExit ==
    /\ scope.state = "alive"
    /\ scope' = NoGCScope_dtor(scope, pz_dev)
    /\ scope_log' = [scope_log EXCEPT !.op = "dtor"]
    /\ UNCHANGED <<pz_dev, heapvars, capvars, tracevars, rootvars, readvars,
                   loadvars, mainvars>>

ScopeNext ==
    \/ \E junk \in 0..MaxOomBytes : ScopeEnter(junk)
    \/ \E size_bytes \in 1..MaxOomBytes : ScopeOom(size_bytes)
    \/ ScopeIsOom
    \/ ScopeAbortIfOom
    \/ ScopeExit

\* ============================================================= GCCapability
NoQuery == [c |-> 0, result |-> FALSE]

\* can_gc that looks at the capability itself only.
can_gc_self(cs, this) == cs[this].m_can_gc = "CAN_GC"

\* The do/while loop of GCCapability::can_gc, cur being the loop variable.
RECURSIVE can_gc_walk(_, _, _)
can_gc_walk(cs, this, cur) ==
    IF cs[cur].m_can_gc = "IS_ROOT" THEN this # cur
    ELSE IF cs[cur].m_can_gc = "CANNOT_GC" THEN FALSE
    ELSE IF cs[cur].m_parent # NULL
    THEN can_gc_walk(cs, this, cs[cur].m_parent)
    ELSE TRUE

\* GCCapability::can_gc
can_gc(cs, this) == can_gc_walk(cs, this, this)

CapInitState ==
    /\ caps = <<>>
    /\ query = NoQuery

\* A root capability is constructed: it has no parent.
CapRoot ==
    /\ Len(caps) < MaxCaps
    /\ caps' = Append(caps, [m_can_gc |-> "IS_ROOT", m_parent |-> NULL])
    /\ query' = NoQuery
    /\ UNCHANGED <<pz_dev, heapvars, scopevars, tracevars, rootvars, readvars,
                   loadvars, mainvars>>

\* A tracer (CAN_GC) or a no-GC scope (CANNOT_GC) is constructed under the
\* capability parent.
CapChild(parent, can_gc_kind) ==
    /\ Len(caps) < MaxCaps
    /\ parent <= Len(caps)
    /\ caps' = Append(caps, [m_can_gc |-> can_gc_kind, m_parent |-> parent])
    /\ query' = NoQuery
    /\ UNCHANGED <<pz_dev, heapvars, scopevars, tracevars, rootvars, readvars,
                   loadvars, mainvars>>

\* The youngest capability goes out of scope.
CapDestroy ==
    /\ caps # <<>>
    /\ caps' = SubSeq(caps, 1, Len(caps) - 1)
    /\ query' = NoQuery
    /\ UNCHANGED <<pz_dev, heapvars, scopevars, tracevars, rootvars, readvars,
                   loadvars, mainvars>>

CapQuery(c) ==
    /\ c <= Len(caps)
    /\ query' = [c |-> c, result |-> can_gc(caps, c)]
    /\ UNCHANGED <<caps, pz_dev, heapvars, scopevars, tracevars, rootvars, readvars,
                   loadvars, mainvars>>

CapNext ==
    \/ CapRoot
    \/ \E parent \in 1..MaxCaps, k \in {"CAN_GC", "CANNOT_GC"} :
          CapChild(parent, k)
    \/ CapDestroy
    \/ \E c \in 1..MaxCaps : CapQuery(c)

\* ================================================================= GCTracer
NoRootsLog == [op |-> "none", root |-> NULL, live |-> {}, added |-> 0,
               status |-> "running"]

\* GCTracer::add_root
add_root(roots, root) == Append(roots, root)

\* remove_root that pops the back of the list whatever root is.
remove_root_any(roots, root) ==
    IF roots = <<>> THEN [m_roots |-> roots, assert |-> TRUE]
    ELSE [m_roots |-> SubSeq(roots, 1, Len(roots) - 1), assert |-> FALSE]

\* GCTracer::remove_root; assert is TRUE when one of its assertions fails.
remove_root(roots, root) ==
    IF roots = <<>> THEN [m_roots |-> roots, assert |-> TRUE]
    ELSE IF roots[Len(roots)] # root THEN [m_roots |-> roots, assert |-> TRUE]
    ELSE [m_roots |-> SubSeq(roots, 1, Len(roots) - 1), assert |-> FALSE]

RootsInitState ==
    /\ m_roots = <<>>
    /\ roots_log = NoRootsLog

\* The history keeps every root added and not removed with the number of
\* the add_root call that added it.
AddRoot(root) ==
    /\ roots_log.status = "running"
    /\ roots_log.added < MaxAdds
    /\ m_roots' = add_root(m_roots, root)
    /\ roots_log' = [roots_log EXCEPT
                        !.op = "add_root", !.root = root,
                        !.added = roots_log.added + 1,
                        !.live = roots_log.live \cup
                                 {[seq |-> roots_log.added + 1, root |-> root]}]
    /\ UNCHANGED <<pz_dev, heapvars, scopevars, capvars, tracevars, readvars,
                   loadvars, mainvars>>

RemoveRoot(root) ==
    /\ roots_log.status = "running"
    /\ LET r == remove_root(m_roots, root)
       IN  /\ m_roots' = r.m_roots
           /\ roots_log' =
                 [roots_log EXCEPT
                     !.op = "remove_root", !.root = root,
                     !.status = IF r.assert THEN "assert" ELSE "running",
                     !.live = IF r.assert THEN roots_log.live
                              ELSE {e \in roots_log.live :
                                      \E l \in roots_log.live : l.seq > e.seq}]
    /\ UNCHANGED <<pz_dev, heapvars, scopevars, capvars, tracevars, readvars,
                   loadvars, mainvars>>

RootsNext ==
    \/ \E root \in 1..NumRootAddrs : AddRoot(root * MACHINE_WORD_SIZE)
    \/ \E root \in 1..NumRootAddrs : RemoveRoot(root * MACHINE_WORD_SIZE)

\* ====================================================== GCTracer::do_trace
NoTrace == [c |-> 0, marked |-> <<>>]

\* trace_parent that never goes up to the parent.
trace_parent_none(cs, this) == <<>>

RECURSIVE do_trace(_, _)

\* GCCapability::trace_parent
trace_parent(cs, this) ==
    IF cs[this].m_parent # NULL /\ can_gc(cs, cs[this].m_parent)
    THEN do_trace(cs, cs[this].m_parent)
    ELSE <<>>

\* GCTracer::do_trace: the mark_root calls it makes, in order, each with
\* the tracer whose list holds the root slot.
do_trace(cs, this) ==
    [i \in 1..Len(cs[this].m_roots) |->
        [cap |-> this, root |-> cs[this].m_roots[i]]]
    \o trace_parent(cs, this)

\* The number of root slots the tracers hold.
RECURSIVE RootsHeld(_, _)
RootsHeld(cs, n) ==
    IF n = 0 THEN 0 ELSE Len(cs[n].m_roots) + RootsHeld(cs, n - 1)

TraceInitState ==
    /\ tracers = <<>>
    /\ trace_log = NoTrace

\* A root capability is constructed: it has no parent and is no tracer.
TracerRoot ==
    /\ Len(tracers) < MaxChain
    /\ tracers' = Append(tracers, [m_can_gc |-> "IS_ROOT", m_parent |-> NULL,
                                   m_roots |-> <<>>])
    /\ trace_log' = NoTrace
    /\ UNCHANGED <<pz_dev, heapvars, scopevars, capvars, rootvars, readvars,
                   loadvars, mainvars>>

\* A GCTracer (CAN_GC) or a no-GC scope (CANNOT_GC) is constructed under
\* the capability parent.
TracerChild(parent, can_gc_kind) ==
    /\ Len(tracers) < MaxChain
    /\ parent <= Len(tracers)
    /\ tracers' = Append(tracers, [m_can_gc |-> can_gc_kind,
                                   m_parent |-> parent, m_roots |-> <<>>])
    /\ trace_log' = NoTrace
    /\ UNCHANGED <<pz_dev, heapvars, scopevars, capvars, rootvars, readvars,
                   loadvars, mainvars>>

\* The youngest capability goes out of scope.
TracerDestroy ==
    /\ tracers # <<>>
    /\ tracers' = SubSeq(tracers, 1, Len(tracers) - 1)
    /\ trace_log' = NoTrace
    /\ UNCHANGED <<pz_dev, heapvars, scopevars, capvars, rootvars, readvars,
                   loadvars, mainvars>>

\* GCTracer::add_root on the tracer c.
TracerAddRoot(c, root) ==
    /\ c <= Len(tracers)
    /\ tracers[c].m_can_gc = "CAN_GC"
    /\ RootsHeld(tracers, Len(tracers)) < MaxTraceRoots
    /\ tracers' = [tracers EXCEPT ![c].m_roots = add_root(@, root)]
    /\ trace_log' = NoTrace
    /\ UNCHANGED <<pz_dev, heapvars, scopevars, capvars, rootvars, readvars,
                   loadvars, mainvars>>

\* GCTracer::remove_root on the tracer c, for the root it added last.
TracerRemoveRoot(c) ==
    /\ c <= Len(tracers)
    /\ tracers[c].m_roots # <<>>
    /\ tracers' =
          [tracers EXCEPT
              ![c].m_roots = remove_root(@, @[Len(@)]).m_roots]
    /\ trace_log' = NoTrace
    /\ UNCHANGED <<pz_dev, heapvars, scopevars, capvars, rootvars, readvars,
                   loadvars, mainvars>>

\* Heap::alloc collects through the capability c: it does so only when
\* c.can_gc(), and collect then calls do_trace on c.tracer().
Trace(c) ==
    /\ c <= Len(tracers)
    /\ can_gc(tracers, c)
    /\ trace_log' = [c |-> c, marked |-> do_trace(tracers, c)]
    /\ UNCHANGED <<tracers, pz_dev, heapvars, scopevars, capvars, rootvars,
                   readvars, loadvars, mainvars>>

TraceNext ==
    \/ TracerRoot
    \/ \E parent \in 1..MaxChain, k \in {"CAN_GC", "CANNOT_GC"} :
          TracerChild(parent, k)
    \/ TracerDestroy
    \/ \E c \in 1..MaxChain, root \in 1..NumRootAddrs :
          TracerAddRoot(c, root * MACHINE_WORD_SIZE)
    \/ \E c \in 1..MaxChain : TracerRemoveRoot(c)
    \/ \E c \in 1..MaxChain : Trace(c)

\* ===================================================================== read
PZ_OBJECT_MAGIC_STRING ==
    <<"P", "l", "a", "s", "m", "a", " ", "o", "b", "j", "e", "c", "t">>
PZ_PROGRAM_MAGIC_STRING ==
    <<"P", "l", "a", "s", "m", "a", " ", "p", "r", "o", "g", "r", "a", "m">>
PZ_LIBRARY_MAGIC_STRING ==
    <<"P", "l", "a", "s", "m", "a", " ", "l", "i", "b", "r", "a", "r", "y">>

\* The items of a file in the order read reads them.
FileItems == <<"magic", "description", "version", "options", "names", "counts">>

ItemIndex(name) == CHOOSE i \in 1..Len(FileItems) : FileItems[i] = name

\* The file has the whole of item name: a read of it succeeds.
Has(f, name) == f.present >= ItemIndex(name)

\* startsWith(string, prefix)
startsWith(string, prefix) ==
    /\ Len(string) >= Len(prefix)
    /\ SubSeq(string, 1, Len(prefix)) = prefix

\* The switch on the magic number that lets the object magic through.
magic_ok_fallthrough(magic) ==
    magic \in {PZ_OBJECT_MAGIC_NUMBER, PZ_PROGRAM_MAGIC_NUMBER,
               PZ_LIBRARY_MAGIC_NUMBER}

\* The switch on the magic number, lines 156-171: TRUE when read continues.
magic_ok(magic) ==
    IF magic = PZ_OBJECT_MAGIC_NUMBER THEN FALSE
    ELSE IF magic \in {PZ_PROGRAM_MAGIC_NUMBER, PZ_LIBRARY_MAGIC_NUMBER}
    THEN TRUE
    ELSE FALSE

\* Optional<EntryClosure>, without a value.
NoEntry == [present |-> FALSE, signature |-> 0, closure_id |-> 0]

OptionsResult(result, entry, consumed) ==
    [result |-> result, entry |-> entry, consumed |-> consumed]

\* The switch that skips the value of every option.
read_option_skip(option, mbEntry) == OptionsResult(TRUE, mbEntry, 4 + option.len)

\* The switch that takes an entry closure of any length.
read_option_any_len(option, mbEntry) ==
    IF option.type = PZ_OPT_ENTRY_CLOSURE
    THEN OptionsResult(TRUE,
                       [present |-> TRUE, signature |-> option.signature,
                        closure_id |-> option.closure_id],
                       4 + 1 + 4)
    ELSE OptionsResult(TRUE, mbEntry, 4 + option.len)

\* Lines 297-323, one option the file holds: type and len are read (4
\* bytes); an entry closure option must have len 5, its signature (1 byte)
\* and closure id (4 bytes) are read and set mbEntry; any other option is
\* skipped by len bytes.
read_option(option, mbEntry) ==
    IF option.type = PZ_OPT_ENTRY_CLOSURE
    THEN IF option.len # 5 THEN OptionsResult(FALSE, mbEntry, 4)
         ELSE OptionsResult(TRUE,
                            [present |-> TRUE,
                             signature |-> option.signature,
                             closure_id |-> option.closure_id],
                            4 + 1 + 4)
    ELSE OptionsResult(TRUE, mbEntry, 4 + option.len)

\* Lines 296-324: the loop from option i on, over num_options options of
\* which the file holds those of the sequence options.
RECURSIVE read_options_from(_, _, _, _, _)
read_options_from(options, num_options, i, mbEntry, consumed) ==
    IF i > num_options THEN OptionsResult(TRUE, mbEntry, consumed)
    ELSE IF i > Len(options) THEN OptionsResult(FALSE, mbEntry, consumed)
    ELSE IF ~read_option(options[i], mbEntry).result
    THEN OptionsResult(FALSE, mbEntry,
                       consumed + read_option(options[i], mbEntry).consumed)
    ELSE read_options_from(
            options, num_options, i + 1,
            read_option(options[i], mbEntry).entry,
            consumed + read_option(options[i], mbEntry).consumed)

\* read_options: num_options is read (2 bytes), then the options.
read_options(options, num_options, mbEntry) ==
    read_options_from(options, num_options, 1, mbEntry, 2)

ReadResult(result, aborted, consumed, library) ==
    [done |-> TRUE, result |-> result, aborted |-> aborted,
     consumed |-> consumed, library |-> library]

ReadFails(consumed) == ReadResult(FALSE, FALSE, consumed, NULL)

\* read, for a file whose section counts are all zero.  consumed is the
\* number of items read successfully; heap_full: the heap cannot serve the
\* allocations of the LibraryLoading object.
read(f, dev, heap_full) ==
    IF ~Has(f, "magic") THEN ReadFails(0)
    ELSE IF ~magic_ok(f.magic) THEN ReadFails(1)
    ELSE IF ~Has(f, "description") THEN ReadFails(1)
    ELSE IF /\ ~startsWith(f.description, PZ_PROGRAM_MAGIC_STRING)
            /\ ~startsWith(f.description, PZ_LIBRARY_MAGIC_STRING)
    THEN ReadFails(2)
    ELSE IF ~Has(f, "version") THEN ReadFails(2)
    ELSE IF f.version # PZ_FORMAT_VERSION THEN ReadFails(3)
    ELSE IF ~Has(f, "options") THEN ReadFails(3)
    ELSE IF ~read_options(f.options, Len(f.options), NoEntry).result
    THEN ReadFails(3)
    ELSE IF ~Has(f, "names") THEN ReadFails(4)
    ELSE IF ~Has(f, "counts") THEN ReadFails(5)
    ELSE IF abort_if_oom(IF heap_full
                         THEN NoGCScope_oom(NoGCScope_ctor(dev, 0),
                                            MACHINE_WORD_SIZE)
                         ELSE NoGCScope_ctor(dev, 0)).state = "aborted"
    THEN ReadResult(FALSE, TRUE, 6, NULL)
    ELSE IF dev /\ f.junk THEN ReadFails(6)
    ELSE ReadResult(TRUE, FALSE, 6, "Library")

NotRead == [done |-> FALSE, result |-> FALSE, aborted |-> FALSE,
            consumed |-> 0, library |-> NULL]

MagicInputs ==
    {PZ_OBJECT_MAGIC_NUMBER, PZ_PROGRAM_MAGIC_NUMBER, PZ_LIBRARY_MAGIC_NUMBER,
     NULL}

DescriptionInputs ==
    {PZ_OBJECT_MAGIC_STRING, PZ_PROGRAM_MAGIC_STRING, PZ_LIBRARY_MAGIC_STRING,
     PZ_PROGRAM_MAGIC_STRING \o <<" ", "0">>,
     SubSeq(PZ_LIBRARY_MAGIC_STRING, 1, Len(PZ_LIBRARY_MAGIC_STRING) - 1),
     <<" ">> \o PZ_PROGRAM_MAGIC_STRING,
     <<>>}

OptionsInputs ==
    {<<>>,
     <<[type |-> PZ_OPT_ENTRY_CLOSURE, len |-> 4]>>,
     <<[type |-> PZ_OPT_ENTRY_CLOSURE + 1, len |-> 5]>>}

\* The files read is given: cut short after any item, with or without bytes
\* after the last item.
ReadInitState ==
    /\ pz_dev \in BOOLEAN
    /\ file \in [magic : MagicInputs, description : DescriptionInputs,
                 version : 0..MaxVersion, options : OptionsInputs,
                 present : 0..Len(FileItems), junk : BOOLEAN]
    /\ file.junk => file.present = Len(FileItems)
    /\ rd = NotRead

Read(heap_full) ==
    /\ ~rd.done
    /\ rd' = read(file, pz_dev, heap_full)
    /\ UNCHANGED <<file, pz_dev, heapvars, scopevars, capvars, tracevars, rootvars,
                    loadvars, mainvars>>

ReadNext == \E heap_full \in BOOLEAN : Read(heap_full)

\* ============================================================= read_imports
\* Strings are sequences of characters, so that module_name + "." + name is
\* a concatenation.
ModuleNames == {<<"A">>, <<"B">>, <<"C">>}
SymbolNames == {<<"f">>, <<"g">>}

\* An export of a library: its qualified name, id and closure.
Export(name, id, closure) == [name |-> name, id |-> id, closure |-> closure]

\* The libraries of the runtime, by module name: in the first, module A
\* exports A.f and A.g, module B exports B.g and a symbol of another
\* qualification, module C is not loaded.
LibrariesInputs ==
    {[m \in {<<"A">>, <<"B">>} |->
        IF m = <<"A">>
        THEN {Export(<<"A", ".", "f">>, 0, 11), Export(<<"A", ".", "g">>, 1, 12)}
        ELSE {Export(<<"B", ".", "g">>, 0, 21), Export(<<"A", ".", "f">>, 1, 22)}],
     [m \in {<<"A">>} |->
        {Export(<<"A", ".", "g">>, 0, 31), Export(<<"f">>, 1, 32)}]}

\* PZ::lookup_library: the libraries of that name, none when the module is
\* not loaded (a null pointer).
lookup_library(libraries, module_name) ==
    {libraries[m] : m \in {n \in DOMAIN libraries : n = module_name}}

\* Library::lookup_symbol: the exports of that name, none when the library
\* has no such export (an Optional without a value).
lookup_symbol(library, name) == {e \in library : e.name = name}

\* The lookup that leaves the module name out of the symbol.
lookup_import_unqualified(libraries, module_name, name) ==
    UNION {lookup_symbol(library, name) :
           library \in lookup_library(libraries, module_name)}

\* Lines 343-358: the export an import resolves to, none when the module or
\* the procedure is not found.
lookup_import(libraries, module_name, name) ==
    UNION {lookup_symbol(library, module_name \o <<".">> \o name) :
           library \in lookup_library(libraries, module_name)}

TheExport(found) == CHOOSE e \in found : TRUE

ImportedResult(done, result, imports, import_closures) ==
    [done |-> done, result |-> result, imports |-> imports,
     import_closures |-> import_closures]

\* read_imports from import i on.  f.strings is the number of strings the
\* file holds whole: two for each import.
RECURSIVE read_imports(_, _, _, _, _)
read_imports(libraries, f, i, imports, import_closures) ==
    IF i > f.num_imports
    THEN ImportedResult(TRUE, TRUE, imports, import_closures)
    ELSE IF f.strings < 2 * i - 1
    THEN ImportedResult(TRUE, FALSE, imports, import_closures)
    ELSE IF f.strings < 2 * i
    THEN ImportedResult(TRUE, FALSE, imports, import_closures)
    ELSE IF lookup_import(libraries, f.imports[i].module, f.imports[i].name) = {}
    THEN ImportedResult(TRUE, FALSE, imports, import_closures)
    ELSE read_imports(
            libraries, f, i + 1,
            Append(imports,
                   TheExport(lookup_import(libraries, f.imports[i].module,
                                           f.imports[i].name)).id),
            Append(import_closures,
                   TheExport(lookup_import(libraries, f.imports[i].module,
                                           f.imports[i].name)).closure))

NotImported == ImportedResult(FALSE, FALSE, <<>>, <<>>)

ImportInputs == [module : ModuleNames, name : SymbolNames]

ImportSections ==
    UNION {[1..n -> ImportInputs] : n \in 0..MaxImports}

\* The import section read_imports is given: num_imports imports, cut short
\* after any string.
ImportsInitState ==
    /\ pz_libraries \in LibrariesInputs
    /\ \E section \in ImportSections :
        \E strings \in 0..(2 * Len(section)) :
            impfile = [num_imports |-> Len(section), imports |-> section,
                       strings |-> strings]
    /\ imported = NotImported

ReadImports ==
    /\ ~imported.done
    /\ imported' = read_imports(pz_libraries, impfile, 1, <<>>, <<>>)
    /\ UNCHANGED <<pz_libraries, impfile>>
    /\ UNCHANGED <<pz_dev, heapvars, scopevars, capvars, tracevars, rootvars, readvars,
                    sectionvars, codevars, entryvars, mainvars>>

ImportsNext == ReadImports

\* ========================================================== LibraryLoading
\* Objects are allocated one after another; the k-th object of the load is
\* at address k * MACHINE_WORD_SIZE.
AddrOf(k) == k * MACHINE_WORD_SIZE
ObjAt(mem, addr) == mem[addr \div MACHINE_WORD_SIZE]
NewAddr(mem) == AddrOf(Len(mem) + 1)

ClosureObject(code, data, inits) ==
    [kind |-> "closure", code |-> code, data |-> data, inits |-> inits]
DataObject(slots) == [kind |-> "data", slots |-> slots]
ProcObject(size) == [kind |-> "proc", size |-> size]

\* The struct table read_structs leaves: the number of fields of each struct.
StructFields == <<1>>

\* LibraryLoading(num_structs, num_datas, num_procs, num_closures, no_gc):
\* the closures are allocated with the object, the other vectors are empty.
LibraryLoading_ctor(num_closures) ==
    [structs |-> StructFields, datas |-> <<>>, procs |-> <<>>,
     closures |-> [i \in 1..num_closures |-> AddrOf(i)],
     symbols |-> <<>>]

LibraryLoading_memory(num_closures) ==
    [i \in 1..num_closures |-> ClosureObject(NULL, NULL, 0)]

\* LibraryLoading::data, ::closure, ::proc and ::struct_: the entry of that
\* id, null when the vector has none.
data(lib, id) == IF id < Len(lib.datas) THEN lib.datas[id + 1] ELSE NULL
closure(lib, id) == IF id < Len(lib.closures) THEN lib.closures[id + 1] ELSE NULL
proc(lib, id) == IF id < Len(lib.procs) THEN lib.procs[id + 1] ELSE NULL
struct_(lib, id) == IF id < Len(lib.structs) THEN id + 1 ELSE NULL

\* LibraryLoading::add_data
add_data(lib, ptr) == [lib EXCEPT !.datas = Append(@, ptr)]

\* How a load stands: the section being read and whether it still runs
\* ("running"), returned false ("failed"), called abort ("aborted"), failed
\* an assertion ("assert") or left defined behaviour ("undefined").
LoadAt(stage, st) == [stage |-> stage, status |-> st]

\* =============================================================== read_data
SlotResult(st, value) == [status |-> st, value |-> value]

\* read_data_slot: the value written into the slot, or how reading stopped.
read_data_slot(lib, imp, slot) ==
    IF slot.enc = pz_data_enc_type_normal
    THEN IF slot.bytes \in {1, 2, 4, 8}
         THEN SlotResult("running", slot.value)
         ELSE SlotResult("failed", NULL)
    ELSE IF slot.enc \in {pz_data_enc_type_fast, pz_data_enc_type_wptr}
    THEN SlotResult("running", slot.value)
    ELSE IF slot.enc = pz_data_enc_type_data
    THEN IF data(lib, slot.value) # NULL
         THEN SlotResult("running", data(lib, slot.value))
         ELSE SlotResult("aborted", NULL)
    ELSE IF slot.enc = pz_data_enc_type_import
    THEN IF ~(slot.value < Len(imp.imports))
         THEN SlotResult("assert", NULL)
         ELSE IF imp.import_closures[slot.value + 1] = NULL
         THEN SlotResult("assert", NULL)
         ELSE SlotResult("running", imp.import_closures[slot.value + 1])
    ELSE IF slot.enc = pz_data_enc_type_closure
    THEN IF closure(lib, slot.value) = NULL
         THEN SlotResult("assert", NULL)
         ELSE SlotResult("running", closure(lib, slot.value))
    ELSE SlotResult("aborted", NULL)

SlotsResult(st, slots) == [status |-> st, slots |-> slots]

\* The loop over the elements of one entry: slots k.. of the n the entry
\* has, of which the file holds those of the sequence slots.
RECURSIVE read_data_slots(_, _, _, _, _, _)
read_data_slots(lib, imp, slots, n, k, written) ==
    IF k > n THEN SlotsResult("running", written)
    ELSE IF k > Len(slots) THEN SlotsResult("failed", written)
    ELSE IF read_data_slot(lib, imp, slots[k]).status # "running"
    THEN SlotsResult(read_data_slot(lib, imp, slots[k]).status, written)
    ELSE read_data_slots(lib, imp, slots, n, k + 1,
                         Append(written,
                                read_data_slot(lib, imp, slots[k]).value))

EntryResult(st, lib, mem) ==
    [status |-> st, library |-> lib, memory |-> mem]

\* Lines 412-421, 428-436, 443-454 and 458: the object is allocated, its
\* slots are read, and only then is it added to the data vector.
data_entry_read(lib, mem, r) ==
    EntryResult(r.status,
                IF r.status = "running" THEN add_data(lib, NewAddr(mem))
                ELSE lib,
                Append(mem, DataObject(r.slots)))

\* The turn that adds the object to the data vector before its slots are
\* read.
read_data_entry_add_first(lib, mem, imp, entry) ==
    EntryResult(
        read_data_slots(add_data(lib, NewAddr(mem)), imp, entry.slots,
                        entry.num_elements, 1, <<>>).status,
        add_data(lib, NewAddr(mem)),
        Append(mem,
               DataObject(read_data_slots(add_data(lib, NewAddr(mem)), imp,
                                          entry.slots, entry.num_elements,
                                          1, <<>>).slots)))

\* One turn of the loop of read_data.  An entry whose type is none of the
\* three adds a null pointer to the data vector.
read_data_entry(lib, mem, imp, entry) ==
    IF ~entry.whole THEN EntryResult("failed", lib, mem)
    ELSE IF entry.type \in {PZ_DATA_ARRAY, PZ_DATA_STRING}
    THEN data_entry_read(lib, mem,
            read_data_slots(lib, imp, entry.slots, entry.num_elements, 1, <<>>))
    ELSE IF entry.type = PZ_DATA_STRUCT
    THEN IF struct_(lib, entry.struct_id) = NULL
         THEN EntryResult("undefined", lib, mem)
         ELSE data_entry_read(lib, mem,
                read_data_slots(lib, imp, entry.slots,
                                lib.structs[struct_(lib, entry.struct_id)],
                                1, <<>>))
    ELSE EntryResult("running", add_data(lib, NULL), mem)

\* The slots a file may hold: plain values, references to data, imports and
\* closures, an encoding of a width there is none of, an unknown encoding.
SlotInputs ==
    {[enc |-> pz_data_enc_type_normal, bytes |-> 4, value |-> 1],
     [enc |-> pz_data_enc_type_normal, bytes |-> 3, value |-> 1],
     [enc |-> pz_data_enc_type_closure + 16, bytes |-> 4, value |-> 0]}
    \cup [enc : {pz_data_enc_type_data}, bytes : {4}, value : 0..MaxDatas]
    \cup [enc : {pz_data_enc_type_import}, bytes : {4}, value : 0..1]
    \cup [enc : {pz_data_enc_type_closure}, bytes : {4},
          value : 0..MaxClosures]

SlotSeqs(S) == UNION {[1..n -> S] : n \in 0..MaxSlots}

\* The entries a file may hold: arrays and strings of the slots above, cut
\* short or not, a struct, an entry of an unknown type, and the end of the
\* file.
DataEntryInputs(S) ==
    {e \in [type : {PZ_DATA_ARRAY}, struct_id : {0},
            num_elements : 0..MaxSlots, slots : SlotSeqs(S), whole : {TRUE}] :
        Len(e.slots) <= e.num_elements}
    \cup {e \in [type : {PZ_DATA_STRING}, struct_id : {0},
                 num_elements : 1..MaxSlots, slots : SlotSeqs(S),
                 whole : {TRUE}] :
            /\ Len(e.slots) = e.num_elements
            /\ \A k \in 1..Len(e.slots) :
                  e.slots[k].enc = pz_data_enc_type_normal}
    \cup [type : {PZ_DATA_STRUCT}, struct_id : {0, 1}, num_elements : {0},
          slots : {<<[enc |-> pz_data_enc_type_normal, bytes |-> 4,
                      value |-> 1]>>},
          whole : {TRUE}]
    \cup [type : {PZ_DATA_STRING + 1}, struct_id : {0}, num_elements : {0},
          slots : {<<>>}, whole : {TRUE}]
    \cup [type : {PZ_DATA_ARRAY}, struct_id : {0}, num_elements : {0},
          slots : {<<>>}, whole : {FALSE}]

\* The Imported object read_imports leaves for a file of one import.
OneImport == ImportedResult(TRUE, TRUE, <<0>>, <<11>>)

NoSections(num_datas, num_procs, num_closures, num_exports) ==
    [num_datas |-> num_datas, num_procs |-> num_procs,
     num_closures |-> num_closures, num_exports |-> num_exports,
     datas |-> <<>>, closures |-> <<>>, exports |-> <<>>]

\* read after read_structs, lines 213-232: the LibraryLoading object is made
\* from the counts of the file, the imports and structs are read.
SectionsInitState(num_datas, num_procs, num_closures, num_exports) ==
    /\ lfile = NoSections(num_datas, num_procs, num_closures, num_exports)
    /\ loading = LibraryLoading_ctor(num_closures)
    /\ memory = LibraryLoading_memory(num_closures)
    /\ load = LoadAt("data", "running")
    /\ imported = OneImport
    /\ pz_libraries = <<>>
    /\ impfile = [num_imports |-> 1, imports |-> <<>>, strings |-> 0]

DataInitState ==
    \E num_datas \in 0..MaxDatas, num_closures \in 0..MaxClosures :
        SectionsInitState(num_datas, 0, num_closures, 0)

LoadStep(r, stage) ==
    /\ loading' = r.library
    /\ memory' = r.memory
    /\ load' = LoadAt(stage, r.status)

\* One turn of the loop of read_data, lines 400-460.
ReadDataEntry(entry) ==
    /\ load = LoadAt("data", "running")
    /\ Len(lfile.datas) < lfile.num_datas
    /\ lfile' = [lfile EXCEPT !.datas = Append(@, entry)]
    /\ LoadStep(read_data_entry(loading, memory, imported, entry), "data")
    /\ UNCHANGED <<pz_dev, heapvars, scopevars, capvars, tracevars, rootvars, readvars,
                    importvars, codevars, entryvars, mainvars>>

\* read_data returns true (line 468) and read goes on to read_code.
ReadDataReturns ==
    /\ load = LoadAt("data", "running")
    /\ Len(lfile.datas) = lfile.num_datas
    /\ load' = LoadAt("code", "running")
    /\ UNCHANGED <<lfile, loading, memory>>
    /\ UNCHANGED <<pz_dev, heapvars, scopevars, capvars, tracevars, rootvars, readvars,
                    importvars, codevars, entryvars, mainvars>>

DataNext ==
    \/ \E entry \in DataEntryInputs(SlotInputs) : ReadDataEntry(entry)
    \/ ReadDataReturns

\* ================================================== read_data_slot, by bytes
\* The bytes of an unsigned value, least significant first, as the stores
\* of data_write_* leave them in memory.
RECURSIVE bytes_of(_, _)
bytes_of(value, n) ==
    IF n = 0 THEN <<>> ELSE <<value % 256>> \o bytes_of(value \div 256, n - 1)

\* A 32-bit value widened to n bytes with zeros.
zero_extend(raw, n) == raw \o [i \in 1..(n - Len(raw)) |-> 0]

\* Line 540, (uintptr_t)i32 of an int32_t: the conversion of a signed
\* 32-bit value to an unsigned type of n bytes repeats its sign bit.
sign_extend(raw, n) ==
    raw \o [i \in 1..(n - Len(raw)) |-> IF raw[Len(raw)] >= 128 THEN 255 ELSE 0]

\* width_to_bytes of pz_data: the in-memory size of a value of that width,
\* with a fast integer of 32 bits and a pointer of a machine word.
width_to_bytes(w) ==
    CASE w = "PZW_8" -> 1
      [] w = "PZW_16" -> 2
      [] w = "PZW_32" -> 4
      [] w = "PZW_64" -> 8
      [] w = "PZW_FAST" -> 4
      [] w = "PZW_PTR" -> MACHINE_WORD_SIZE

PZ_Width == {"PZW_8", "PZW_16", "PZW_32", "PZW_64", "PZW_FAST", "PZW_PTR"}

\* Lines 490-589: the bytes a call of read_data_slot that returns true
\* stores at dest.  The store is chosen by the encoding byte of the slot;
\* the function is not given the width of the slot it writes.
slot_bytes(lib, imp, slot) ==
    IF slot.enc = pz_data_enc_type_normal THEN slot.raw
    ELSE IF slot.enc = pz_data_enc_type_fast
    THEN sign_extend(slot.raw, width_to_bytes("PZW_FAST"))
    ELSE IF slot.enc = pz_data_enc_type_wptr
    THEN sign_extend(slot.raw, MACHINE_WORD_SIZE)
    ELSE bytes_of(read_data_slot(lib, imp, slot).value, MACHINE_WORD_SIZE)

\* The memory of one data entry and around it: size bytes were asked for,
\* the heap hands out whole words.  dest and written are those of the last
\* call of read_data_slot.
Region(size) ==
    [kind |-> "bytes", size |-> size,
     cell |-> ALIGN_UP(size, MACHINE_WORD_SIZE),
     bytes |-> [o \in 0..((MaxElements + 1) * MACHINE_WORD_SIZE - 1) |-> 0],
     dest |-> 0, written |-> {}]

store_bytes(obj, dest, bs) ==
    [obj EXCEPT !.bytes = [o \in DOMAIN @ |->
                              IF o \in dest..(dest + Len(bs) - 1)
                              THEN bs[o - dest + 1] ELSE @[o]],
                !.dest = dest,
                !.written = dest..(dest + Len(bs) - 1)]

\* Lines 418 and 453: data_ptr advances by the width of the array, by one
\* byte in a string.
slot_stride(entry) ==
    IF entry.type = PZ_DATA_STRING THEN 1 ELSE width_to_bytes(entry.width)

\* Lines 412 and 443: data_new_array_data and FlatString::New.
entry_size(entry) == slot_stride(entry) * entry.num_elements

\* The values a file may hold for a slot, by their bytes.
ByteSlotInputs ==
    {[enc |-> pz_data_enc_type_normal, bytes |-> 1, value |-> 0,
      raw |-> <<255>>],
     [enc |-> pz_data_enc_type_normal, bytes |-> 2, value |-> 0,
      raw |-> <<1, 2>>],
     [enc |-> pz_data_enc_type_normal, bytes |-> 4, value |-> 0,
      raw |-> <<1, 2, 3, 4>>],
     [enc |-> pz_data_enc_type_normal, bytes |-> 8, value |-> 0,
      raw |-> <<1, 2, 3, 4, 5, 6, 7, 8>>],
     [enc |-> pz_data_enc_type_normal, bytes |-> 3, value |-> 0,
      raw |-> <<1, 2, 3>>],
     [enc |-> pz_data_enc_type_fast, bytes |-> 4, value |-> 0,
      raw |-> <<1, 0, 0, 0>>],
     [enc |-> pz_data_enc_type_closure, bytes |-> 4, value |-> 0,
      raw |-> <<0, 0, 0, 0>>]}
    \cup [enc : {pz_data_enc_type_wptr}, bytes : {4}, value : {0},
          raw : {<<1, 0, 0, 0>>, <<255, 255, 255, 127>>, <<0, 0, 0, 128>>,
                 <<255, 255, 255, 255>>}]

ArrayInputs ==
    [type : {PZ_DATA_ARRAY}, width : PZ_Width, num_elements : 1..MaxElements,
     slots : {<<>>}]
    \cup [type : {PZ_DATA_STRING}, width : {"PZW_8"},
          num_elements : 1..MaxElements, slots : {<<>>}]

\* read_data after the object of an entry is allocated, lines 412 and 443.
SlotInitState ==
    /\ lfile \in ArrayInputs
    /\ loading = LibraryLoading_ctor(1)
    /\ memory = Append(LibraryLoading_memory(1), Region(entry_size(lfile)))
    /\ load = LoadAt("data", "running")
    /\ imported = OneImport
    /\ pz_libraries = <<>>
    /\ impfile = [num_imports |-> 1, imports |-> <<>>, strings |-> 0]

slot_read(mem, r, dest, bs) ==
    IF r.status = "running"
    THEN [mem EXCEPT ![Len(mem)] = store_bytes(@, dest, bs)]
    ELSE mem

\* One turn of the loops at lines 414-419 and 449-454.
ReadDataSlot(slot) ==
    /\ load = LoadAt("data", "running")
    /\ Len(lfile.slots) < lfile.num_elements
    /\ lfile' = [lfile EXCEPT !.slots = Append(@, slot)]
    /\ memory' = slot_read(memory, read_data_slot(loading, imported, slot),
                           Len(lfile.slots) * slot_stride(lfile),
                           slot_bytes(loading, imported, slot))
    /\ load' = LoadAt("data", read_data_slot(loading, imported, slot).status)
    /\ UNCHANGED loading
    /\ UNCHANGED <<pz_dev, heapvars, scopevars, capvars, tracevars, rootvars, readvars,
                    importvars, codevars, entryvars, mainvars>>

\* Line 458: the object is added to the data vector.
AddData ==
    /\ load = LoadAt("data", "running")
    /\ Len(lfile.slots) = lfile.num_elements
    /\ loading' = add_data(loading, AddrOf(Len(memory)))
    /\ load' = LoadAt("code", "running")
    /\ UNCHANGED <<lfile, memory>>
    /\ UNCHANGED <<pz_dev, heapvars, scopevars, capvars, tracevars, rootvars, readvars,
                    importvars, codevars, entryvars, mainvars>>

SlotNext ==
    \/ \E slot \in ByteSlotInputs : ReadDataSlot(slot)
    \/ AddData

\* ================================================================ read_code
\* LibraryLoading::new_proc for each procedure of the file, in file order:
\* a code buffer of the size the first pass found and the Proc object that
\* holds it.
RECURSIVE new_procs(_, _, _)
new_procs(lib, mem, n) ==
    IF n = 0 THEN EntryResult("running", lib, mem)
    ELSE new_procs([lib EXCEPT !.procs = Append(@, AddrOf(Len(mem) + 2))],
                   mem \o <<[kind |-> "code", size |-> 1],
                            [kind |-> "proc", code |-> NewAddr(mem)]>>,
                   n - 1)

\* Proc::code
code(mem, proc_ptr) == ObjAt(mem, proc_ptr).code

\* read_code as the later sections see it: it returns false, or it returns
\* true with every procedure of the file allocated.
ReadCode(result) ==
    /\ load = LoadAt("code", "running")
    /\ IF result
       THEN LoadStep(new_procs(loading, memory, lfile.num_procs), "closures")
       ELSE /\ load' = LoadAt("code", "failed")
            /\ UNCHANGED <<loading, memory>>
    /\ UNCHANGED lfile
    /\ UNCHANGED <<pz_dev, heapvars, scopevars, capvars, tracevars, rootvars, readvars,
                    importvars, codevars, entryvars, mainvars>>

\* ============================================================ read_closures
\* Closure::init
Closure_init(mem, ptr, proc_code, data_ptr) ==
    [mem EXCEPT ![ptr \div MACHINE_WORD_SIZE] =
        ClosureObject(proc_code, data_ptr, @.inits + 1)]

\* The turn that makes a new closure for the entry and puts it in the place
\* of the one allocated with the LibraryLoading object.
read_closure_entry_new(lib, mem, i, entry) ==
    IF entry.present < 2 \/ proc(lib, entry.proc_id) = NULL
    THEN EntryResult("failed", lib, mem)
    ELSE EntryResult("running",
                     [lib EXCEPT !.closures[i + 1] = NewAddr(mem)],
                     Append(mem,
                            ClosureObject(code(mem, proc(lib, entry.proc_id)),
                                          data(lib, entry.data_id), 1)))

\* The turn that initialises the closure the entry's procedure id names.
read_closure_entry_other(lib, mem, i, entry) ==
    IF entry.present < 2 \/ proc(lib, entry.proc_id) = NULL
    THEN EntryResult("failed", lib, mem)
    ELSE EntryResult("running", lib,
                     Closure_init(mem, closure(lib, entry.proc_id),
                                  code(mem, proc(lib, entry.proc_id)),
                                  data(lib, entry.data_id)))

\* One turn of the loop of read_closures, for closure i.  The procedure of
\* an id the file has no procedure for is a null pointer, and its code is
\* read through it.
read_closure_entry(lib, mem, i, entry) ==
    IF entry.present < 1 THEN EntryResult("failed", lib, mem)
    ELSE IF proc(lib, entry.proc_id) = NULL
    THEN EntryResult("undefined", lib, mem)
    ELSE IF entry.present < 2 THEN EntryResult("failed", lib, mem)
    ELSE EntryResult("running", lib,
                     Closure_init(mem, closure(lib, i),
                                  code(mem, proc(lib, entry.proc_id)),
                                  data(lib, entry.data_id)))

\* The closure entries a file may hold, and the two ways it may end in one.
ClosureEntryInputs ==
    [proc_id : 0..MaxProcs, data_id : {0, MaxDatas}, present : {2}]
    \cup [proc_id : {0}, data_id : {0}, present : {0, 1}]

ReadClosure(entry) ==
    /\ load = LoadAt("closures", "running")
    /\ Len(lfile.closures) < lfile.num_closures
    /\ lfile' = [lfile EXCEPT !.closures = Append(@, entry)]
    /\ LoadStep(read_closure_entry(loading, memory, Len(lfile.closures),
                                   entry),
                "closures")
    /\ UNCHANGED <<pz_dev, heapvars, scopevars, capvars, tracevars, rootvars, readvars,
                    importvars, codevars, entryvars, mainvars>>

\* read_closures returns true (line 937) and read goes on to read_exports.
ReadClosuresReturns ==
    /\ load = LoadAt("closures", "running")
    /\ Len(lfile.closures) = lfile.num_closures
    /\ load' = LoadAt("exports", "running")
    /\ UNCHANGED <<lfile, loading, memory>>
    /\ UNCHANGED <<pz_dev, heapvars, scopevars, capvars, tracevars, rootvars, readvars,
                    importvars, codevars, entryvars, mainvars>>

\* The data read before the closures: arrays of no element or of one
\* reference to a closure, and entries of an unknown type.
ClosureRefEntries ==
    {e \in DataEntryInputs(
              [enc : {pz_data_enc_type_closure}, bytes : {4},
               value : 0..MaxClosures]) :
        /\ e.whole
        /\ e.type # PZ_DATA_STRUCT
        /\ e.num_elements <= 1
        /\ Len(e.slots) = e.num_elements}

ClosuresInitState ==
    \E num_datas \in 0..MaxDatas, num_procs \in 0..MaxProcs,
       num_closures \in 0..MaxClosures :
        SectionsInitState(num_datas, num_procs, num_closures, 0)

ClosuresNext ==
    \/ \E entry \in ClosureRefEntries : ReadDataEntry(entry)
    \/ ReadDataReturns
    \/ \E result \in BOOLEAN : ReadCode(result)
    \/ \E entry \in ClosureEntryInputs : ReadClosure(entry)
    \/ ReadClosuresReturns

\* The whole of read_closures, from closure i on.
RECURSIVE read_closures(_, _, _, _)
read_closures(r, entries, num_closures, i) ==
    IF i >= num_closures \/ r.status # "running" THEN r
    ELSE read_closures(read_closure_entry(r.library, r.memory, i,
                                          entries[i + 1]),
                       entries, num_closures, i + 1)

\* ============================================================= read_exports
\* LibraryLoading::add_symbol.  A name the map already has keeps its closure
\* or takes the new one.
add_symbol(lib, name, closure_ptr, replace) ==
    IF name \in DOMAIN lib.symbols /\ ~replace THEN lib
    ELSE [lib EXCEPT !.symbols =
            [n \in DOMAIN lib.symbols \cup {name} |->
                IF n = name THEN closure_ptr ELSE lib.symbols[n]]]

\* The turn that adds the symbol whatever closure(clo_id) gives.
read_export_unchecked(lib, mem, entry, replace) ==
    IF entry.present < 2 THEN EntryResult("failed", lib, mem)
    ELSE EntryResult("running",
                     add_symbol(lib, entry.name, closure(lib, entry.clo_id),
                                replace),
                     mem)

\* One turn of the loop of read_exports.
read_export(lib, mem, entry, replace) ==
    IF entry.present < 1 THEN EntryResult("failed", lib, mem)
    ELSE IF entry.present < 2 THEN EntryResult("failed", lib, mem)
    ELSE IF closure(lib, entry.clo_id) = NULL
    THEN EntryResult("failed", lib, mem)
    ELSE EntryResult("running",
                     add_symbol(lib, entry.name, closure(lib, entry.clo_id),
                                replace),
                     mem)

\* The export entries a file may hold, and the two ways it may end in one.
ExportEntryInputs ==
    [name : SymbolNames, clo_id : 0..MaxClosures, present : {2}]
    \cup [name : {<<"f">>}, clo_id : {0}, present : {0, 1}]

ReadExport(entry, replace) ==
    /\ load = LoadAt("exports", "running")
    /\ Len(lfile.exports) < lfile.num_exports
    /\ lfile' = [lfile EXCEPT !.exports = Append(@, entry)]
    /\ LoadStep(read_export(loading, memory, entry, replace), "exports")
    /\ UNCHANGED <<pz_dev, heapvars, scopevars, capvars, tracevars, rootvars, readvars,
                    importvars, codevars, entryvars, mainvars>>

\* read_exports returns true (line 965).
ReadExportsReturns ==
    /\ load = LoadAt("exports", "running")
    /\ Len(lfile.exports) = lfile.num_exports
    /\ load' = LoadAt("done", "running")
    /\ UNCHANGED <<lfile, loading, memory>>
    /\ UNCHANGED <<pz_dev, heapvars, scopevars, capvars, tracevars, rootvars, readvars,
                    importvars, codevars, entryvars, mainvars>>

SectionsAt(r, f, stage) ==
    /\ lfile = f
    /\ loading = r.library
    /\ memory = r.memory
    /\ load = LoadAt(stage, r.status)
    /\ imported = OneImport
    /\ pz_libraries = <<>>
    /\ impfile = [num_imports |-> 1, imports |-> <<>>, strings |-> 0]

\* read after read_closures returned true, line 247, for a file of one
\* procedure, no data and closures of that procedure.
ExportsInitState ==
    \E num_closures \in 0..MaxClosures, num_exports \in 0..MaxExports :
        SectionsAt(
            read_closures(
                new_procs(LibraryLoading_ctor(num_closures),
                          LibraryLoading_memory(num_closures), 1),
                [i \in 1..num_closures |->
                    [proc_id |-> 0, data_id |-> 0, present |-> 2]],
                num_closures, 0),
            [NoSections(0, 1, num_closures, num_exports) EXCEPT
                !.closures = [i \in 1..num_closures |->
                                [proc_id |-> 0, data_id |-> 0, present |-> 2]]],
            "exports")

ExportsNext ==
    \/ \E entry \in ExportEntryInputs, replace \in BOOLEAN :
          ReadExport(entry, replace)
    \/ ReadExportsReturns

\* ===================================================== read_code, read_proc
\* The file from the first procedure entry on: f.size bytes.  A read of n
\* bytes at position pos succeeds when the file holds them; seek_cur moves
\* the position whatever the file holds.
Avail(f, pos, n) == pos + n <= f.size

\* The bytes of the file an immediate of that type takes, lines 759-837.
ImmFileBytes(imt) ==
    IF imt = "IMT_NONE" THEN 0
    ELSE IF imt = "IMT_8" THEN 1
    ELSE IF imt = "IMT_16" THEN 2
    ELSE IF imt = "IMT_64" THEN 8
    ELSE IF imt = "IMT_STRUCT_REF_FIELD" THEN 5
    ELSE 4

\* The bytes of code an immediate of that type takes.
immediate_size(imt) ==
    IF imt = "IMT_8" THEN 1
    ELSE IF imt \in {"IMT_16", "IMT_IMPORT_REF", "IMT_STRUCT_REF_FIELD"} THEN 2
    ELSE IF imt = "IMT_32" THEN 4
    ELSE IF imt = "IMT_64" THEN 8
    ELSE MACHINE_WORD_SIZE

\* Where write_instr puts the immediate of an instruction written at offset.
immediate_offset(offset, imt) == ALIGN_UP(offset + 1, immediate_size(imt))

\* write_instr: the instruction is written at offset, its immediate aligned
\* after it; the result is the offset after the instruction.  It writes
\* nothing when proc_code is null.
write_instr(offset, imt) ==
    IF imt = "IMT_NONE" THEN offset + 1
    ELSE immediate_offset(offset, imt) + immediate_size(imt)

\* The label taken for an offset into the code.
label_ref_as_offset(proc_code, block_offsets, imm32) == proc_code + imm32

\* Line 816: &proc_code[(*block_offsets)[imm32]]
label_ref(proc_code, block_offsets, imm32) ==
    proc_code + block_offsets[imm32 + 1]

\* The state of read_proc: the file position, proc_offset, the block
\* offsets, the instructions written and, for each instruction object, the
\* position and proc_offset it was met at.
ProcState(st, pos, off, bo, written, trace) ==
    [status |-> st, pos |-> pos, off |-> off, bo |-> bo,
     written |-> written, trace |-> trace]

Stopped(ps, st) == [ps EXCEPT !.status = st]

\* The procedure reference taken for the id itself.
proc_ref_as_id(procs, proc_id) == proc_id

\* Line 790: library.proc(proc_id)->code()
proc_ref(procs, proc_id) == procs[proc_id + 1].code

\* The immediate value of the second pass.  The references other than
\* labels and procedures are resolved through the library and the imports:
\* the id stands for their value.
immediate_value(ps, item, proc_code, procs) ==
    IF proc_code = NULL /\ item.imt \in {"IMT_CLOSURE_REF", "IMT_PROC_REF",
                                         "IMT_LABEL_REF"}
    THEN 0
    ELSE IF item.imt = "IMT_LABEL_REF"
    THEN label_ref(proc_code, ps.bo, item.imm)
    ELSE IF item.imt = "IMT_PROC_REF"
    THEN proc_ref(procs, item.imm)
    ELSE item.imm

Written(ps, item, proc_code, block, procs) ==
    [block |-> block, offset |-> ps.off, imt |-> item.imt,
     imm32 |-> item.imm,
     value |-> immediate_value(ps, item, proc_code, procs)]

\* read_instr, after the byte PZ_CODE_INSTR.  A width byte the file lacks
\* gives no width; an immediate the file lacks fails the read; a label
\* beyond the block offsets is read from outside the array, and the code of
\* a procedure the library has not is asked of a null pointer.
read_instr(f, ps, item, proc_code, block, procs) ==
    IF ~Avail(f, ps.pos, 1) THEN Stopped(ps, "failed")
    ELSE IF item.imt = "IMT_NONE"
    THEN [ps EXCEPT
            !.pos = IF Avail(f, ps.pos + 1, item.widths)
                    THEN ps.pos + 1 + item.widths ELSE f.size,
            !.off = write_instr(ps.off, item.imt),
            !.written = IF proc_code = NULL THEN @
                        ELSE Append(@, Written(ps, item, proc_code, block,
                                                    procs))]
    ELSE IF ~Avail(f, ps.pos + 1 + item.widths, ImmFileBytes(item.imt))
    THEN Stopped(ps, "failed")
    ELSE IF /\ item.imt = "IMT_LABEL_REF"
            /\ proc_code # NULL
            /\ item.imm >= Len(ps.bo)
    THEN Stopped(ps, "undefined")
    ELSE IF /\ item.imt = "IMT_PROC_REF"
            /\ proc_code # NULL
            /\ item.imm >= Len(procs)
    THEN Stopped(ps, "undefined")
    ELSE [ps EXCEPT
            !.pos = ps.pos + 1 + item.widths + ImmFileBytes(item.imt),
            !.off = write_instr(ps.off, item.imt),
            !.written = IF proc_code = NULL THEN @
                        ELSE Append(@, Written(ps, item, proc_code, block,
                                                    procs))]

\* read_meta that skips nothing when the context is not stored.
read_meta_no_skip(f, ps, meta_byte, store) ==
    IF meta_byte \in {PZ_CODE_META_CONTEXT, PZ_CODE_META_CONTEXT_SHORT}
    THEN IF store
         THEN [ps EXCEPT !.pos = @ + IF meta_byte = PZ_CODE_META_CONTEXT
                                     THEN 8 ELSE 4]
         ELSE ps
    ELSE ps

\* read_meta.  store: this is the second pass and load_debuginfo is set.
read_meta(f, ps, meta_byte, store) ==
    IF meta_byte = PZ_CODE_META_CONTEXT
    THEN IF store
         THEN IF ~Avail(f, ps.pos, 4) THEN Stopped(ps, "failed")
              ELSE IF ~Avail(f, ps.pos + 4, 4)
              THEN [ps EXCEPT !.pos = @ + 4, !.status = "failed"]
              ELSE [ps EXCEPT !.pos = @ + 8]
         ELSE [ps EXCEPT !.pos = @ + 8]
    ELSE IF meta_byte = PZ_CODE_META_CONTEXT_SHORT
    THEN IF store
         THEN IF ~Avail(f, ps.pos, 4) THEN Stopped(ps, "failed")
              ELSE [ps EXCEPT !.pos = @ + 4]
         ELSE [ps EXCEPT !.pos = @ + 4]
    ELSE IF meta_byte = PZ_CODE_META_CONTEXT_NIL THEN ps
    ELSE Stopped(ps, "aborted")

\* Lines 708-725: one instruction object, met at ps.pos and ps.off.
read_item(f, ps, item, proc_code, store, block, procs) ==
    IF ~Avail(f, ps.pos, 1) THEN Stopped(ps, "failed")
    ELSE IF item.byte = PZ_CODE_INSTR
    THEN read_instr(f,
                    [ps EXCEPT !.pos = @ + 1,
                               !.trace = Append(@, <<ps.pos, ps.off>>)],
                    item, proc_code, block, procs)
    ELSE read_meta(f,
                   [ps EXCEPT !.pos = @ + 1,
                              !.trace = Append(@, <<ps.pos, ps.off>>)],
                   item.byte, store)

\* Lines 707-726: the instruction objects j.. of a block.
RECURSIVE read_items(_, _, _, _, _, _, _, _)
read_items(f, ps, items, j, proc_code, store, block, procs) ==
    IF ps.status # "running" \/ j > Len(items) THEN ps
    ELSE read_items(f,
                    read_item(f, ps, items[j], proc_code, store, block,
                              procs),
                    items, j + 1, proc_code, store, block, procs)

\* Lines 696-727: the blocks i.. of a procedure.  The first pass notes
\* proc_offset as the offset of the block.
RECURSIVE read_blocks(_, _, _, _, _, _, _)
read_blocks(f, ps, blocks, i, proc_code, store, procs) ==
    IF ps.status # "running" \/ i > Len(blocks) THEN ps
    ELSE IF ~Avail(f, ps.pos, 4)
    THEN [ps EXCEPT !.status = "failed",
                    !.bo = IF proc_code = NULL THEN Append(@, ps.off) ELSE @]
    ELSE read_blocks(
            f,
            read_items(f,
                       [ps EXCEPT !.pos = @ + 4,
                                  !.bo = IF proc_code = NULL
                                         THEN Append(@, ps.off) ELSE @],
                       blocks[i], 1, proc_code, store, i - 1, procs),
            blocks, i + 1, proc_code, store, procs)

\* read_proc from position pos: the first pass when proc_code is null.  A
\* name cut short leaves the file at its end.
read_proc(f, pos, p, proc_code, block_offsets, store, procs) ==
    IF ~Avail(f, pos, 2 + p.name_len)
    THEN ProcState("failed", f.size, 0, block_offsets, <<>>, <<>>)
    ELSE IF ~Avail(f, pos + 2 + p.name_len, 4)
    THEN ProcState("failed", pos + 2 + p.name_len, 0, block_offsets,
                   <<>>, <<>>)
    ELSE read_blocks(f,
                     ProcState("running", pos + 2 + p.name_len + 4, 0,
                               IF proc_code = NULL THEN <<>>
                               ELSE block_offsets,
                               <<>>, <<>>),
                     p.blocks, 1, proc_code, store, procs)

\* The instruction objects of the files read.
Instr(widths, imt, imm) ==
    [byte |-> PZ_CODE_INSTR, widths |-> widths, imt |-> imt, imm |-> imm]
Meta(byte) == [byte |-> byte, widths |-> 0, imt |-> "IMT_NONE", imm |-> 0]

\* The blocks of the files read: instructions with and without widths and
\* immediates, a label to each block and to one the procedure has not, a
\* reference to each procedure and to one the file may not have, context
\* items, a block of nothing but a context item, an empty block and
\* an item of an unknown byte.
BlockInputs ==
    {<<Instr(0, "IMT_NONE", 0)>>,
     <<Instr(1, "IMT_8", 5), Instr(2, "IMT_NONE", 0), Instr(0, "IMT_32", 6)>>,
     <<Meta(PZ_CODE_META_CONTEXT), Instr(1, "IMT_16", 7),
       Meta(PZ_CODE_META_CONTEXT_SHORT)>>,
     <<Meta(PZ_CODE_META_CONTEXT_NIL)>>,
     <<>>,
     <<Meta(PZ_CODE_META_CONTEXT_NIL + 1)>>}
    \cup {<<Instr(0, "IMT_NONE", 0), Instr(0, "IMT_LABEL_REF", b)>> :
            b \in 0..MaxBlocks}
    \cup {<<Instr(0, "IMT_PROC_REF", j)>> : j \in 0..MaxProcs}

ProcInputs ==
    [name_len : {1},
     blocks : UNION {[1..n -> BlockInputs] : n \in 0..MaxBlocks}]

\* The procedure that follows the first in the files of two.
SecondProcInputs ==
    {[name_len |-> 0,
      blocks |-> <<<<Instr(0, "IMT_LABEL_REF", 0)>>>>],
     [name_len |-> 0,
      blocks |-> <<<<Instr(0, "IMT_PROC_REF", 0)>>>>]}

\* The bytes an instruction object, a block and a procedure take in a file.
ItemBytes(item) ==
    IF item.byte = PZ_CODE_INSTR
    THEN 2 + item.widths + ImmFileBytes(item.imt)
    ELSE IF item.byte = PZ_CODE_META_CONTEXT THEN 9
    ELSE IF item.byte = PZ_CODE_META_CONTEXT_SHORT THEN 5
    ELSE 1

RECURSIVE BlockBytes(_, _)
BlockBytes(items, j) ==
    IF j > Len(items) THEN 0 ELSE ItemBytes(items[j]) + BlockBytes(items, j + 1)

RECURSIVE BlocksBytes(_, _)
BlocksBytes(blocks, i) ==
    IF i > Len(blocks) THEN 0
    ELSE 4 + BlockBytes(blocks[i], 1) + BlocksBytes(blocks, i + 1)

ProcBytes(p) == 2 + p.name_len + 4 + BlocksBytes(p.blocks, 1)

RECURSIVE ProcsBytes(_, _)
ProcsBytes(procs, i) ==
    IF i > Len(procs) THEN 0 ELSE ProcBytes(procs[i]) + ProcsBytes(procs, i + 1)

NotReadCode ==
    [pass |-> 1, i |-> 0, pos |-> 0, status |-> "running", procs |-> <<>>]

\* read_code is given a file of up to two procedures, whole or cut short by
\* three or four bytes, with load_debuginfo set or not.
CodeInitState ==
    /\ \E procs \in {<<>>} \cup {<<p>> : p \in ProcInputs}
                    \cup {<<p, q>> : p \in ProcInputs, q \in SecondProcInputs},
          cut \in {0, 3, 4}, load_debuginfo \in BOOLEAN :
          /\ cut <= ProcsBytes(procs, 1)
          /\ cfile = [procs |-> procs, size |-> ProcsBytes(procs, 1) - cut,
                      load_debuginfo |-> load_debuginfo]
    /\ rc = NotReadCode

\* LibraryLoading::new_proc: the code of the procedures is allocated one
\* buffer after another.
new_proc_code(procs) ==
    IF procs = <<>> THEN MACHINE_WORD_SIZE
    ELSE ALIGN_UP(procs[Len(procs)].code + procs[Len(procs)].size,
                  MACHINE_WORD_SIZE)

\* Lines 621-624: the size the first pass found; a size of 0 ends read_code.
FirstPassOf(r) ==
    IF r.status # "running" THEN [rc EXCEPT !.status = r.status, !.pos = r.pos]
    ELSE IF r.off = 0 THEN [rc EXCEPT !.status = "failed", !.pos = r.pos]
    ELSE [rc EXCEPT
            !.i = @ + 1,
            !.pos = r.pos,
            !.procs = Append(@, [size |-> r.off,
                                 code |-> new_proc_code(rc.procs),
                                 block_offsets |-> r.bo,
                                 first |-> r.trace, first_end |-> r.pos,
                                 second |-> <<>>, second_end |-> 0,
                                 second_off |-> 0, written |-> <<>>,
                                 read |-> FALSE])]

FirstPass ==
    /\ rc.status = "running"
    /\ rc.pass = 1
    /\ rc.i < Len(cfile.procs)
    /\ rc' = FirstPassOf(read_proc(cfile, rc.pos, cfile.procs[rc.i + 1],
                                   NULL, <<>>, FALSE, rc.procs))
    /\ UNCHANGED cfile
    /\ UNCHANGED <<pz_dev, heapvars, scopevars, capvars, tracevars, rootvars, readvars,
                    importvars, sectionvars, entryvars, mainvars>>

\* Line 636: the file is set back to where the first pass began.
SecondPassBegins ==
    /\ rc.status = "running"
    /\ rc.pass = 1
    /\ rc.i = Len(cfile.procs)
    /\ rc' = [rc EXCEPT !.pass = 2, !.i = 0, !.pos = 0]
    /\ UNCHANGED cfile
    /\ UNCHANGED <<pz_dev, heapvars, scopevars, capvars, tracevars, rootvars, readvars,
                    importvars, sectionvars, entryvars, mainvars>>

\* Lines 642-646: a result of 0 ends read_code.
SecondPassOf(r) ==
    [rc EXCEPT
        !.i = IF r.status = "running" /\ r.off # 0 THEN @ + 1 ELSE @,
        !.pos = r.pos,
        !.status = IF r.status # "running" THEN r.status
                   ELSE IF r.off = 0 THEN "failed" ELSE "running",
        !.procs[rc.i + 1] =
            [@ EXCEPT !.second = r.trace, !.second_end = r.pos,
                      !.second_off = r.off, !.written = r.written,
                      !.read = r.status = "running"]]

SecondPass ==
    /\ rc.status = "running"
    /\ rc.pass = 2
    /\ rc.i < Len(cfile.procs)
    /\ rc' = SecondPassOf(read_proc(cfile, rc.pos, cfile.procs[rc.i + 1],
                                    rc.procs[rc.i + 1].code,
                                    rc.procs[rc.i + 1].block_offsets,
                                    cfile.load_debuginfo, rc.procs))
    /\ UNCHANGED cfile
    /\ UNCHANGED <<pz_dev, heapvars, scopevars, capvars, tracevars, rootvars, readvars,
                    importvars, sectionvars, entryvars, mainvars>>

\* Line 652: result = true.
ReadCodeReturns ==
    /\ rc.status = "running"
    /\ rc.pass = 2
    /\ rc.i = Len(cfile.procs)
    /\ rc' = [rc EXCEPT !.pass = 3]
    /\ UNCHANGED cfile
    /\ UNCHANGED <<pz_dev, heapvars, scopevars, capvars, tracevars, rootvars, readvars,
                    importvars, sectionvars, entryvars, mainvars>>

CodeNext == FirstPass \/ SecondPassBegins \/ SecondPass \/ ReadCodeReturns

\* ====================================================== the entry closure
\* The library has no entry closure.
NoLibraryEntry == [present |-> FALSE, signature |-> 0, closure |-> NULL]

\* Lines 276-281: the Library made from the LibraryLoading object, and its
\* entry closure when the options named one.
Library_entry(lib_load, entry_closure) ==
    IF entry_closure.present
    THEN [present |-> TRUE, signature |-> entry_closure.signature,
          closure |-> closure(lib_load, entry_closure.closure_id)]
    ELSE NoLibraryEntry

NotLoaded ==
    [stage |-> "options", status |-> "running", entry_closure |-> NoEntry,
     consumed |-> 0, library |-> NoLibraryEntry]

\* The options a file may hold: entry closures of either signature, an
\* entry closure of a wrong length, entry candidates with and without a
\* value.
OptionInputs ==
    [type : {PZ_OPT_ENTRY_CLOSURE}, len : {5},
     signature : {PZ_OPT_ENTRY_SIG_PLAIN, PZ_OPT_ENTRY_SIG_ARGS},
     closure_id : 0..MaxClosures]
    \cup [type : {PZ_OPT_ENTRY_CLOSURE}, len : {4}, signature : {0},
          closure_id : {0}]
    \cup [type : {PZ_OPT_ENTRY_CANDIDATE}, len : {0, 5},
          signature : {PZ_OPT_ENTRY_SIG_PLAIN}, closure_id : {0}]

\* read before read_options, line 195: the options block of the file, whole
\* or cut short in its last option, and the number of closures of the file.
EntryInitState ==
    /\ \E options \in UNION {[1..n -> OptionInputs] : n \in 0..MaxOptions},
          cut \in BOOLEAN, num_closures \in 0..MaxClosures :
          optfile = [options |-> options,
                     num_options |-> Len(options) + IF cut THEN 1 ELSE 0,
                     num_closures |-> num_closures]
    /\ entryload = NotLoaded

\* Lines 195-196.
ReadOptions ==
    /\ entryload.stage = "options"
    /\ entryload.status = "running"
    /\ entryload' =
          IF read_options(optfile.options, optfile.num_options,
                          NoEntry).result
          THEN [entryload EXCEPT
                  !.stage = "sections",
                  !.entry_closure =
                      read_options(optfile.options, optfile.num_options,
                                   NoEntry).entry,
                  !.consumed =
                      read_options(optfile.options, optfile.num_options,
                                   NoEntry).consumed]
          ELSE [entryload EXCEPT
                  !.status = "failed",
                  !.consumed =
                      read_options(optfile.options, optfile.num_options,
                                   NoEntry).consumed]
    /\ UNCHANGED optfile
    /\ UNCHANGED <<pz_dev, heapvars, scopevars, capvars, tracevars, rootvars, readvars,
                    importvars, sectionvars, codevars, mainvars>>

\* Lines 198-270: the names, the counts and the sections are read; read
\* returns false when one of them fails.
ReadSections(result) ==
    /\ entryload.stage = "sections"
    /\ entryload.status = "running"
    /\ entryload' = IF result THEN [entryload EXCEPT !.stage = "library"]
                    ELSE [entryload EXCEPT !.status = "failed"]
    /\ UNCHANGED optfile
    /\ UNCHANGED <<pz_dev, heapvars, scopevars, capvars, tracevars, rootvars, readvars,
                    importvars, sectionvars, codevars, mainvars>>

\* Lines 276-287.  When the allocation of the Library fails the pointer is
\* null: set_entry_closure is called through it when the options named an
\* entry, and read returns false otherwise.
MakeLibrary(oom) ==
    /\ entryload.stage = "library"
    /\ entryload.status = "running"
    /\ entryload' =
          IF oom
          THEN [entryload EXCEPT
                  !.status = IF entryload.entry_closure.present
                             THEN "undefined" ELSE "failed"]
          ELSE [entryload EXCEPT
                  !.stage = "done",
                  !.library =
                      Library_entry(LibraryLoading_ctor(optfile.num_closures),
                                    entryload.entry_closure)]
    /\ UNCHANGED optfile
    /\ UNCHANGED <<pz_dev, heapvars, scopevars, capvars, tracevars, rootvars, readvars,
                    importvars, sectionvars, codevars, mainvars>>

EntryNext ==
    \/ ReadOptions
    \/ \E result \in BOOLEAN : ReadSections(result)
    \/ \E oom \in BOOLEAN : MakeLibrary(oom)

\* ================================================================ pz_main
\* Options::Mode.
Modes == {"HELP", "VERSION", "ERROR", "NORMAL"}

\* What a call of read comes to: a module, a null pointer (the file is
\* missing or malformed, an import is unresolved, a NoGCScope ran out of
\* memory), or abort() (Heap::alloc out of memory, pz_gc.cpp line 165, and
\* the abort() calls of pz_read.cpp).
ReadOutcomes == {"module", "null", "abort"}

\* What the interpreter comes to: its return code, or abort() when
\* Heap::alloc runs out of memory.
InterpAborts == [aborted |-> TRUE, retcode |-> 0]

InterpOutcomes ==
    [aborted : {FALSE}, retcode : 0..MaxRetcode] \cup {InterpAborts}

Exit(p, retcode) ==
    [p EXCEPT !.pc = "done", !.status = "exited", !.code = retcode]

Abort(p) == [p EXCEPT !.pc = "done", !.status = "aborted"]

ProcessStarted ==
    [pc |-> "main", status |-> "running", code |-> 0, init |-> <<>>,
     reads |-> <<>>, interp |-> <<>>]

\* Lines 38-54.
main(p, mode) ==
    IF mode = "HELP" THEN Exit(p, EXIT_SUCCESS)
    ELSE IF mode = "VERSION" THEN Exit(p, EXIT_SUCCESS)
    ELSE IF mode = "ERROR" THEN Exit(p, EXIT_FAILURE)
    ELSE [p EXCEPT !.pc = "init"]

\* Lines 62-67.
run_init(p, ok) ==
    IF ~ok THEN Exit([p EXCEPT !.init = <<ok>>], EXIT_FAILURE)
    ELSE [p EXCEPT !.init = <<ok>>, !.pc = "builtins"]

\* The loop that goes on to the next file when read returns null.
run_lib_continue(p, outcome) ==
    IF outcome = "abort" THEN Abort([p EXCEPT !.reads = Append(@, outcome)])
    ELSE [p EXCEPT !.reads = Append(@, outcome)]

\* Lines 75-81, one file of options.pzlibs().
run_lib(p, outcome) ==
    IF outcome = "abort" THEN Abort([p EXCEPT !.reads = Append(@, outcome)])
    ELSE IF outcome = "null"
    THEN Exit([p EXCEPT !.reads = Append(@, outcome)], EXIT_FAILURE)
    ELSE [p EXCEPT !.reads = Append(@, outcome)]

\* Lines 83-93, up to the call of the interpreter.
run_pzfile(p, outcome) ==
    IF outcome = "abort" THEN Abort([p EXCEPT !.reads = Append(@, outcome)])
    ELSE IF outcome = "module"
    THEN [p EXCEPT !.reads = Append(@, outcome), !.pc = "interp"]
    ELSE Exit([p EXCEPT !.reads = Append(@, outcome)], EXIT_FAILURE)

\* Lines 88-90.
run_interp(p, outcome) ==
    IF outcome.aborted THEN Abort([p EXCEPT !.interp = <<outcome>>])
    ELSE Exit([p EXCEPT !.interp = <<outcome>>], outcome.retcode)

\* main is entered: the mode of the command line and its library files.
MainInitState ==
    /\ cmdline \in [mode : Modes, pzlibs : 0..MaxLibs]
    /\ process = ProcessStarted

Main ==
    /\ process.pc = "main"
    /\ process' = main(process, cmdline.mode)
    /\ UNCHANGED cmdline
    /\ UNCHANGED <<pz_dev, heapvars, scopevars, capvars, tracevars, rootvars, readvars,
                    loadvars>>

RunInit(ok) ==
    /\ process.pc = "init"
    /\ process' = run_init(process, ok)
    /\ UNCHANGED cmdline
    /\ UNCHANGED <<pz_dev, heapvars, scopevars, capvars, tracevars, rootvars, readvars,
                    loadvars>>

\* Lines 68-73.
SetupBuiltins ==
    /\ process.pc = "builtins"
    /\ process' = [process EXCEPT !.pc = "libs"]
    /\ UNCHANGED cmdline
    /\ UNCHANGED <<pz_dev, heapvars, scopevars, capvars, tracevars, rootvars, readvars,
                    loadvars>>

RunLib(outcome) ==
    /\ process.pc = "libs"
    /\ Len(process.reads) < cmdline.pzlibs
    /\ process' = run_lib(process, outcome)
    /\ UNCHANGED cmdline
    /\ UNCHANGED <<pz_dev, heapvars, scopevars, capvars, tracevars, rootvars, readvars,
                    loadvars>>

RunPzfile(outcome) ==
    /\ process.pc = "libs"
    /\ Len(process.reads) = cmdline.pzlibs
    /\ process' = run_pzfile(process, outcome)
    /\ UNCHANGED cmdline
    /\ UNCHANGED <<pz_dev, heapvars, scopevars, capvars, tracevars, rootvars, readvars,
                    loadvars>>

RunInterp(outcome) ==
    /\ process.pc = "interp"
    /\ process' = run_interp(process, outcome)
    /\ UNCHANGED cmdline
    /\ UNCHANGED <<pz_dev, heapvars, scopevars, capvars, tracevars, rootvars, readvars,
                    loadvars>>

MainNext ==
    \/ Main
    \/ \E ok \in BOOLEAN : RunInit(ok)
    \/ SetupBuiltins
    \/ \E outcome \in ReadOutcomes : RunLib(outcome)
    \/ \E outcome \in ReadOutcomes : RunPzfile(outcome)
    \/ \E outcome \in InterpOutcomes : RunInterp(outcome)

\* =========================================================== specifications
HeapIdle ==
    /\ heap = HeapConstructed
    /\ hstate = "constructed"
    /\ gc_zealous = FALSE
    /\ stack = [i \in 0..(StackSlots - 1) |-> 0]
    /\ sp = -1
    /\ status = "running"
    /\ last = NoCall

ScopeIdle == scope = NoScope /\ scope_log = NoScopeLog

CapIdle == caps = <<>> /\ query = NoQuery

RootsIdle == m_roots = <<>> /\ roots_log = NoRootsLog

TraceIdle == tracers = <<>> /\ trace_log = NoTrace

ReadIdle ==
    /\ file = [magic |-> NULL, description |-> <<>>, version |-> 0,
               options |-> <<>>, present |-> 0, junk |-> FALSE]
    /\ rd = NotRead

ImportsIdle ==
    /\ pz_libraries = <<>>
    /\ impfile = [num_imports |-> 0, imports |-> <<>>, strings |-> 0]
    /\ imported = NotImported

SectionsIdle ==
    /\ lfile = NoSections(0, 0, 0, 0)
    /\ loading = LibraryLoading_ctor(0)
    /\ memory = <<>>
    /\ load = LoadAt("idle", "running")

CodeIdle ==
    /\ cfile = [procs |-> <<>>, size |-> 0, load_debuginfo |-> FALSE]
    /\ rc = NotReadCode

EntryIdle ==
    /\ optfile = [options |-> <<>>, num_options |-> 0, num_closures |-> 0]
    /\ entryload = NotLoaded

MainIdle ==
    /\ cmdline = [mode |-> "NORMAL", pzlibs |-> 0]
    /\ process = ProcessStarted

LoadIdle == ImportsIdle /\ SectionsIdle /\ CodeIdle /\ EntryIdle /\ MainIdle

vars == <<heapvars, pz_dev, scopevars, capvars, tracevars, rootvars, readvars,
          loadvars, mainvars>>

\* The heap.
Init == HeapInitState /\ pz_dev = TRUE /\ ScopeIdle /\ CapIdle /\ TraceIdle /\ RootsIdle
        /\ ReadIdle /\ LoadIdle
Next == HeapNext
Spec == Init /\ [][Next]_vars

\* The heap with gc_slow_asserts on.
InitSlow == SlowInitState /\ pz_dev = TRUE /\ ScopeIdle /\ CapIdle
            /\ TraceIdle /\ RootsIdle /\ ReadIdle /\ LoadIdle
SpecSlow == InitSlow /\ [][HeapNext]_vars

\* The heap with sizes above the mapping asked of set_heap_size.
SpecMax == Init /\ [][MaxNext]_vars

\* try_allocate on the heaps a collection leaves.
InitFit == FitInitState /\ pz_dev = TRUE /\ ScopeIdle /\ CapIdle /\ TraceIdle
           /\ RootsIdle /\ ReadIdle /\ LoadIdle
SpecFit == InitFit /\ [][FitNext]_vars

\* A no-GC scope.
InitScope == ScopeInitState /\ HeapIdle /\ CapIdle /\ TraceIdle /\ RootsIdle /\ ReadIdle
             /\ LoadIdle
SpecScope == InitScope /\ [][ScopeNext]_vars

\* The capability chain.
InitCap == CapInitState /\ TraceIdle /\ pz_dev = TRUE /\ HeapIdle /\ ScopeIdle /\ RootsIdle
           /\ ReadIdle /\ LoadIdle
SpecCap == InitCap /\ [][CapNext]_vars

\* The root list of a tracer.
InitRoots == RootsInitState /\ pz_dev = TRUE /\ HeapIdle /\ ScopeIdle
             /\ CapIdle /\ TraceIdle /\ ReadIdle /\ LoadIdle
SpecRoots == InitRoots /\ [][RootsNext]_vars

\* read.
InitRead == ReadInitState /\ HeapIdle /\ ScopeIdle /\ CapIdle /\ TraceIdle /\ RootsIdle
            /\ LoadIdle
SpecRead == InitRead /\ [][ReadNext]_vars

\* read_imports.
InitImports == ImportsInitState /\ pz_dev = TRUE /\ HeapIdle /\ ScopeIdle
               /\ CapIdle /\ TraceIdle /\ RootsIdle /\ ReadIdle /\ SectionsIdle
               /\ CodeIdle /\ EntryIdle /\ MainIdle
SpecImports == InitImports /\ [][ImportsNext]_vars

\* read_data.
InitData == DataInitState /\ pz_dev = TRUE /\ HeapIdle /\ ScopeIdle
            /\ CapIdle /\ TraceIdle /\ RootsIdle /\ ReadIdle /\ CodeIdle
            /\ EntryIdle /\ MainIdle
SpecData == InitData /\ [][DataNext]_vars

\* read_data_slot, by the bytes it stores.
InitSlot == SlotInitState /\ pz_dev = TRUE /\ HeapIdle /\ ScopeIdle
            /\ CapIdle /\ TraceIdle /\ RootsIdle /\ ReadIdle /\ CodeIdle
            /\ EntryIdle /\ MainIdle
SpecSlot == InitSlot /\ [][SlotNext]_vars

\* read_data, read_code and read_closures.
InitClosures == ClosuresInitState /\ pz_dev = TRUE /\ HeapIdle /\ ScopeIdle
                /\ CapIdle /\ TraceIdle /\ RootsIdle /\ ReadIdle /\ CodeIdle
                /\ EntryIdle /\ MainIdle
SpecClosures == InitClosures /\ [][ClosuresNext]_vars

\* read_exports.
InitExports == ExportsInitState /\ pz_dev = TRUE /\ HeapIdle /\ ScopeIdle
               /\ CapIdle /\ TraceIdle /\ RootsIdle /\ ReadIdle /\ CodeIdle
               /\ EntryIdle /\ MainIdle
SpecExports == InitExports /\ [][ExportsNext]_vars

\* read_code.
InitCode == CodeInitState /\ pz_dev = TRUE /\ HeapIdle /\ ScopeIdle
            /\ CapIdle /\ TraceIdle /\ RootsIdle /\ ReadIdle /\ ImportsIdle
            /\ SectionsIdle /\ EntryIdle /\ MainIdle
SpecCode == InitCode /\ [][CodeNext]_vars

\* read: the entry closure.
InitEntry == EntryInitState /\ pz_dev = TRUE /\ HeapIdle /\ ScopeIdle
             /\ CapIdle /\ TraceIdle /\ RootsIdle /\ ReadIdle /\ ImportsIdle
             /\ SectionsIdle /\ CodeIdle /\ MainIdle
SpecEntry == InitEntry /\ [][EntryNext]_vars

\* do_trace over the capability chain.
InitTrace == TraceInitState /\ pz_dev = TRUE /\ HeapIdle /\ ScopeIdle
             /\ CapIdle /\ RootsIdle /\ ReadIdle /\ LoadIdle
SpecTrace == InitTrace /\ [][TraceNext]_vars

\* main.
InitMain == MainInitState /\ pz_dev = TRUE /\ HeapIdle /\ ScopeIdle
            /\ CapIdle /\ TraceIdle /\ RootsIdle /\ ReadIdle /\ ImportsIdle
            /\ SectionsIdle /\ CodeIdle /\ EntryIdle
SpecMain == InitMain /\ [][MainNext]_vars

\* ====================================================== heap: definitions
\* The heap as the claims describe it, stated on the bitmap and the words
\* without the collector's own helpers.
WordAddr(h, i) == h.base_address + i * MACHINE_WORD_SIZE

Untag(w) == (w \div (TAG_BITS + 1)) * (TAG_BITS + 1)

InUse(h, i) == i >= 1 /\ i < MapWords /\ WordAddr(h, i) < h.wilderness_ptr

ValidCells(h) == {i \in 1..(MapWords - 1) :
                    InUse(h, i) /\ (h.bitmap[i] \div GC_BITS_VALID) % 2 = 1}

AllocatedCells(h) == {i \in ValidCells(h) : h.bitmap[i] % 2 = 1}

FreeCells(h) == ValidCells(h) \ AllocatedCells(h)

SizeOf(h, i) == h.mem[i - 1]

PayloadIndices(h, i) == {j \in 0..(MapWords - 1) : j >= i /\ j < i + SizeOf(h, i)}

\* The allocated cells whose base some word of W names once its tag is masked.
Targets(h, W) ==
    {i \in AllocatedCells(h) : \E w \in W : Untag(w) = WordAddr(h, i)}

RECURSIVE ReachFrom(_, _)
ReachFrom(h, S) ==
    LET T == S \cup Targets(h, {h.mem[j] :
                                  j \in UNION {PayloadIndices(h, i) : i \in S}})
    IN  IF T = S THEN S ELSE ReachFrom(h, T)

\* The cells reachable from the root words stk[0..top].
Reachable(h, stk, top) == ReachFrom(h, Targets(h, {stk[j] : j \in 0..top}))

\* The free list as a sequence of word indices; ok is FALSE when the walk
\* leaves the heap or does not end.
RECURSIVE FreeWalk(_, _, _)
FreeWalk(h, ptr, fuel) ==
    IF ptr = NULL THEN [cells |-> <<>>, ok |-> TRUE]
    ELSE IF fuel = 0 \/ ptr % MACHINE_WORD_SIZE # 0
            \/ ~InUse(h, (ptr - h.base_address) \div MACHINE_WORD_SIZE)
    THEN [cells |-> <<>>, ok |-> FALSE]
    ELSE LET i == (ptr - h.base_address) \div MACHINE_WORD_SIZE
             rest == FreeWalk(h, h.mem[i], fuel - 1)
         IN  [cells |-> <<i>> \o rest.cells, ok |-> rest.ok]

FreeList(h) == FreeWalk(h, h.free_list, MapWords + 1)

FreeListSet(h) == {FreeList(h).cells[x] : x \in 1..Len(FreeList(h).cells)}

AllocOps == {"alloc", "alloc_bytes", "alloc_field"}

\* The step is a heap call during which a collection ran.
CollectingStep == last'.op \in AllocOps \cup {"collect"} /\ last'.collections = 1

\* The size in words an allocation call asks for.
WordsAsked(l) ==
    IF l.op = "alloc_bytes"
    THEN (l.size + MACHINE_WORD_SIZE - 1) \div MACHINE_WORD_SIZE
    ELSE l.size

\* ============================================================ heap: claims

\* C1: a collection never frees a live object: every cell that is allocated
\* and reachable from the root words before a call that collects is still
\* allocated after it, with the same size and, when the call is collect,
\* alloc or alloc_bytes, the same payload words.
C1_LiveObjectsSurvive ==
    [][CollectingStep =>
        \A i \in Reachable(heap, stack, sp) :
            /\ i \in AllocatedCells(heap')
            /\ SizeOf(heap', i) = SizeOf(heap, i)
            /\ last'.op # "alloc_field" =>
                   \A j \in PayloadIndices(heap, i) : heap'.mem[j] = heap.mem[j]
      ]_vars

\* A collection has just kept a cell that is reachable only through another
\* cell, and freed a cell.
C1_Witness ==
    /\ last.op = "collect"
    /\ \E i \in AllocatedCells(heap) :
           /\ i \notin Targets(heap, {stack[j] : j \in 0..sp})
           /\ i \in Reachable(heap, stack, sp)
    /\ status = "running"

\* C2: a collection reclaims every unreachable object: after collect, every
\* cell that was allocated and not reachable has its allocated bit cleared
\* and lies inside a cell of the free list, as that cell itself (bits exactly
\* VALID) or merged into it (bits 0).
C2_GarbageReclaimed ==
    [][last'.op = "collect" =>
        \A i \in AllocatedCells(heap) \ Reachable(heap, stack, sp) :
            /\ heap'.bitmap[i] % 2 = 0
            /\ \E f \in FreeListSet(heap') :
                   /\ f <= i
                   /\ i + SizeOf(heap, i) <= f + SizeOf(heap', f)
                   /\ heap'.bitmap[i] = (IF f = i THEN GC_BITS_VALID ELSE 0)
      ]_vars

\* collect has just merged a freed cell into the free cell before it.
C2_Witness ==
    /\ last.op = "collect"
    /\ \E f \in FreeListSet(heap) : SizeOf(heap, f) > MaxAllocWords + 1
    /\ \E i \in 1..(MapWords - 1) :
           InUse(heap, i) /\ heap.bitmap[i] = 0 /\ heap.mem[i - 1] # 0
                /\ \E f \in FreeListSet(heap) : f < i /\ i < f + SizeOf(heap, f)

\* C3: between heap operations no word of the bitmap has the marked bit.
C3_NoMarkedBits ==
    \A i \in 0..(MapWords - 1) : (heap.bitmap[i] \div GC_BITS_MARKED) % 2 = 0

\* collect has just returned and left a reachable cell allocated.
C3_Witness ==
    /\ last.op = "collect"
    /\ Reachable(heap, stack, sp) # {}

\* C4: the used extent of the heap never exceeds heap_size, and a cell an
\* allocation has just returned ends at or before base_address + heap_size.
C4_WithinHeapSize ==
    /\ heap.wilderness_ptr - heap.base_address <= heap.heap_size
    /\ (last.op \in AllocOps /\ last.cell # NULL) =>
           last.cell + WordsAsked(last) * MACHINE_WORD_SIZE
               <= heap.base_address + heap.heap_size

\* An allocation has just been refused although the free list is empty: the
\* wilderness could not serve it.
C4_Witness ==
    /\ status = "oom"
    /\ heap.free_list = NULL
    /\ heap.wilderness_ptr > heap.base_address
    /\ heap.wilderness_ptr + 2 * MACHINE_WORD_SIZE
           > heap.base_address + heap.heap_size

\* Some free cell or the wilderness can serve n words.
CanServe(h, n) ==
    \/ \E f \in FreeCells(h) : SizeOf(h, f) >= n
    \/ h.wilderness_ptr + (n + 1) * MACHINE_WORD_SIZE
           <= h.base_address + h.heap_size

\* C5: alloc collects exactly when its first attempt fails or is skipped by
\* zealous mode, at most once; it aborts exactly when the attempt after the
\* collection fails too, and otherwise returns a non-null allocated cell of
\* at least the size asked.
C5_OneCollectionThenAbort ==
    [][last'.op \in AllocOps =>
        LET n == WordsAsked(last')
            skipped == gc_zealous /\ heap.wilderness_ptr > heap.base_address
            first_fails == skipped \/ ~CanServe(heap, n)
            i == (last'.cell - heap.base_address) \div MACHINE_WORD_SIZE
        IN  /\ last'.collections = (IF first_fails THEN 1 ELSE 0)
            /\ (status' = "oom") =
                   (first_fails /\ ~CanServe(collect(heap, stack, sp), n))
            /\ status' \in {"oom", "running"}
            /\ status' = "oom" => last'.collections = 1 /\ ~CanServe(heap', n)
            /\ status' = "running" =>
                   /\ last'.cell # NULL
                   /\ i \in AllocatedCells(heap')
                   /\ SizeOf(heap', i) >= n
      ]_vars

\* An alloc has just run a collection and then served the request.
C5_Witness ==
    /\ last.op \in AllocOps
    /\ last.collections = 1
    /\ ~gc_zealous
    /\ last.cell # NULL
    /\ status = "running"

C7_OomLatched ==
    [][/\ (scope'.state = "alive" /\ scope_log'.ooms > 0) =>
              /\ scope'.m_did_oom
              /\ scope'.m_oom_size = scope_log'.first_oom
       /\ (scope.state = "alive" /\ scope.m_did_oom
               /\ scope_log'.op \in {"oom", "is_oom", "abort_if_oom", "dtor"}) =>
              /\ scope'.m_did_oom
              /\ scope'.m_oom_size = scope.m_oom_size
       /\ scope_log'.op = "dtor" =>
              /\ scope'.state \in {"aborted", "destroyed"}
              /\ (scope'.state = "aborted") =
                     (scope_log.ooms > 0 \/ (pz_dev /\ ~scope_log.checked))
      ]_vars

\* The destructor has just aborted a scope that was checked and on which
\* oom was called twice with different sizes.
C7_Witness ==
    /\ scope.state = "aborted"
    /\ scope_log.op = "dtor"
    /\ scope_log.checked
    /\ scope_log.ooms = 2
    /\ scope_log.last_oom # scope_log.first_oom
    /\ scope.m_oom_size = scope_log.first_oom

\* ==================================================== GCCapability: claims
\* The capabilities from c up to the one without a parent.
RECURSIVE Chain(_, _)
Chain(cs, c) ==
    {c} \cup (IF cs[c].m_parent = 0 THEN {} ELSE Chain(cs, cs[c].m_parent))

\* C8: can_gc() on capability c returns true exactly when c is not a Root
\* and no capability from c up to the Root is CANNOT_GC.
C8_CanGcWholeChain ==
    query.c # 0 =>
        (query.result =
            (/\ caps[query.c].m_can_gc # "IS_ROOT"
             /\ \A d \in Chain(caps, query.c) : caps[d].m_can_gc # "CANNOT_GC"))

\* can_gc has just returned false for a CAN_GC capability created inside a
\* CANNOT_GC scope that is itself under a CAN_GC capability of a Root.
C8_Witness ==
    /\ query.c # 0
    /\ ~query.result
    /\ caps[query.c].m_can_gc = "CAN_GC"
    /\ \E d \in Chain(caps, query.c) \ {query.c} :
           /\ caps[d].m_can_gc = "CANNOT_GC"
           /\ caps[d].m_parent # 0
           /\ caps[caps[d].m_parent].m_can_gc = "CAN_GC"

\* ======================================================== GCTracer: claims
\* The entry of the history added last.
MostRecent(live) == CHOOSE e \in live : \A l \in live : l.seq <= e.seq

\* The roots of the history in the order they were added.
InOrder(live) ==
    [i \in 1..Cardinality(live) |->
        (CHOOSE e \in live :
            Cardinality({l \in live : l.seq < e.seq}) = i - 1).root]

\* C9: remove_root(p) is accepted exactly when some root is added and not
\* yet removed and p is the most recent of them, and otherwise an assertion
\* fails; while no assertion has failed the list is the added and not yet
\* removed roots in the order they were added.
C9_RemoveIsLifo ==
    [][/\ roots_log'.op = "remove_root" =>
              /\ roots_log'.status \in {"running", "assert"}
              /\ (roots_log'.status = "running") =
                     (/\ roots_log.live # {}
                      /\ roots_log'.root = MostRecent(roots_log.live).root)
              /\ roots_log'.status = "running" =>
                     roots_log'.live =
                         roots_log.live \ {MostRecent(roots_log.live)}
       /\ roots_log'.status = "running" => m_roots' = InOrder(roots_log'.live)
      ]_vars

\* A root has just been removed while an older root, added twice, is still
\* in the list.
C9_Witness ==
    /\ roots_log.op = "remove_root"
    /\ roots_log.status = "running"
    /\ Len(m_roots) = 2
    /\ m_roots[1] = m_roots[2]
    /\ roots_log.root # m_roots[1]

\* ============================================================ read: claims
\* The header of the file is one read accepts, stated on the file.
ValidHeader(f) ==
    /\ f.present >= 3
    /\ f.magic \in {PZ_PROGRAM_MAGIC_NUMBER, PZ_LIBRARY_MAGIC_NUMBER}
    /\ \E kind \in {<<"p", "r", "o", "g", "r", "a", "m">>,
                     <<"l", "i", "b", "r", "a", "r", "y">>} :
           \E rest \in {SubSeq(f.description, i, Len(f.description)) :
                           i \in 1..(Len(f.description) + 1)} :
               f.description = <<"P", "l", "a", "s", "m", "a", " ">> \o kind
                                   \o rest
    /\ f.version = 0

\* C10: unless the magic is the program or library magic, the description
\* starts with "Plasma program" or "Plasma library" and the version is 0,
\* read returns false, having read no section count and produced no library.
C10_HeaderValidated ==
    (rd.done /\ ~ValidHeader(file)) =>
        /\ ~rd.result
        /\ ~rd.aborted
        /\ rd.consumed < ItemIndex("counts")
        /\ rd.library = NULL

\* read has just refused a file for its version alone: the magic and the
\* description are good and the file is complete.
C10_Witness ==
    /\ rd.done
    /\ ~rd.result
    /\ file.magic = PZ_LIBRARY_MAGIC_NUMBER
    /\ file.description = PZ_LIBRARY_MAGIC_STRING
    /\ file.version # PZ_FORMAT_VERSION
    /\ file.present = Len(FileItems)

\* ============================================== read_imports: definitions
\* The file holds both strings of import i.
ImportInFile(i) == impfile.strings >= 2 * i

\* The exports import i names: those of the library loaded under the
\* import's module name whose name is module "." symbol.
ImportExports(i) ==
    {e \in UNION {pz_libraries[m] :
                    m \in {n \in DOMAIN pz_libraries :
                             n = impfile.imports[i].module}} :
       e.name = impfile.imports[i].module \o <<".">> \o impfile.imports[i].name}

ImportResolves(i) == ImportInFile(i) /\ ImportExports(i) # {}

\* The imports before the first one that does not resolve.
ResolvedPrefix ==
    {i \in 1..impfile.num_imports : \A j \in 1..i : ImportResolves(j)}

\* C11: read_imports returns true iff every import of the file, in file
\* order, names a loaded module and a symbol module "." name that the module
\* exports; then imports and import_closures have num_imports entries each,
\* entry i being the id and the closure of the i-th import; it returns false
\* at the first import that does not resolve, with the imports before it
\* recorded and none after.
C11_ImportsResolved ==
    imported.done =>
        /\ imported.result <=>
              \A i \in 1..impfile.num_imports : ImportResolves(i)
        /\ imported.result =>
              /\ Len(imported.imports) = impfile.num_imports
              /\ Len(imported.import_closures) = impfile.num_imports
        /\ Len(imported.imports) = Cardinality(ResolvedPrefix)
        /\ Len(imported.import_closures) = Cardinality(ResolvedPrefix)
        /\ \A i \in ResolvedPrefix :
              \E e \in ImportExports(i) :
                  /\ imported.imports[i] = e.id
                  /\ imported.import_closures[i] = e.closure

\* Two imports of two modules were resolved.
C11_Witness ==
    /\ imported.done
    /\ imported.result
    /\ impfile.num_imports = 2
    /\ impfile.imports[1].module # impfile.imports[2].module
    /\ imported.import_closures[1] # imported.import_closures[2]

\* ================================================= read_data: definitions
\* The addresses of the data objects allocated so far.
DataAddrs ==
    {AddrOf(k) : k \in {j \in 1..Len(memory) : memory[j].kind = "data"}}

\* The slots of entry d of the file that hold a reference to data.
DataRefSlots(d) ==
    {k \in 1..Len(lfile.datas[d].slots) :
        lfile.datas[d].slots[k].enc = pz_data_enc_type_data}

\* Entry d, whose id is d - 1, refers only to entries before it.
BackwardOnly(d) ==
    \A k \in DataRefSlots(d) : lfile.datas[d].slots[k].value < d - 1

\* C12: read_data returns true only if every reference to data in entry d
\* names an id below that of d; an entry with a reference to itself or to a
\* later entry stops the load and is never added to the data vector; a slot
\* of a data object never holds the address of that object or of one
\* allocated after it, and the slots of an entry of the data vector that
\* were read from references hold the entries referred to.
C12_DataRefsBackward ==
    load.status # "undefined" =>
        /\ load.stage = "code" =>
              \A d \in 1..Len(lfile.datas) : BackwardOnly(d)
        /\ \A d \in 1..Len(lfile.datas) :
              ~BackwardOnly(d) =>
                  /\ load.status \notin {"running"}
                  /\ Len(loading.datas) < d
        /\ \A a \in DataAddrs :
              \A k \in 1..Len(ObjAt(memory, a).slots) :
                  ObjAt(memory, a).slots[k] \in DataAddrs =>
                      ObjAt(memory, a).slots[k] < a
        /\ \A d \in 1..Len(loading.datas) :
              loading.datas[d] # NULL =>
                  \A k \in DataRefSlots(d) :
                      ObjAt(memory, loading.datas[d]).slots[k] =
                          loading.datas[lfile.datas[d].slots[k].value + 1]

\* read_data returned true for a file whose second entry refers to its first.
C12_Witness ==
    /\ load = LoadAt("code", "running")
    /\ Len(lfile.datas) = 2
    /\ DataRefSlots(2) # {}
    /\ \E k \in DataRefSlots(2) :
          ObjAt(memory, loading.datas[2]).slots[k] = loading.datas[1]

\* ============================================= read_closures: definitions
\* The slots of entry d of the file that hold a reference to a closure the
\* file has.
ClosureRefSlots(d) ==
    {k \in 1..Len(lfile.datas[d].slots) :
        /\ lfile.datas[d].slots[k].enc = pz_data_enc_type_closure
        /\ lfile.datas[d].slots[k].value < lfile.num_closures}

\* The closure entries read_closures has read and initialised a closure for.
ClosuresRead ==
    {i \in 1..Len(lfile.closures) :
        i < Len(lfile.closures) \/ load.status = "running"}

\* The code base of the procedure closure entry i names.
EntryCode(i) ==
    ObjAt(memory, loading.procs[lfile.closures[i].proc_id + 1]).code

\* The data entry closure entry i names, null when there is none of that id.
EntryData(i) ==
    IF lfile.closures[i].data_id < Len(loading.datas)
    THEN loading.datas[lfile.closures[i].data_id + 1]
    ELSE NULL

\* C13: a data slot read from a reference to closure c < num_closures holds,
\* from the moment read_data wrote it, the address of the closure object
\* that read_closures initialises for id c: once closure entry c is read,
\* the object at that address is initialised with the code base of the
\* procedure the entry names.  The closure addresses are those given when
\* the LibraryLoading object was made, in every state of the load.
C13_ForwardClosureRefs ==
    load.status # "undefined" =>
        /\ Len(loading.closures) = lfile.num_closures
        /\ \A c \in 1..lfile.num_closures : loading.closures[c] = AddrOf(c)
        /\ \A d \in 1..Len(loading.datas) :
              loading.datas[d] # NULL =>
                  \A k \in ClosureRefSlots(d) :
                      /\ ObjAt(memory, loading.datas[d]).slots[k] =
                            loading.closures[lfile.datas[d].slots[k].value + 1]
                      /\ lfile.datas[d].slots[k].value + 1 \in ClosuresRead =>
                            /\ ObjAt(memory,
                                     ObjAt(memory, loading.datas[d]).slots[k]
                                    ).kind = "closure"
                            /\ ObjAt(memory,
                                     ObjAt(memory, loading.datas[d]).slots[k]
                                    ).inits = 1
                            /\ ObjAt(memory,
                                     ObjAt(memory, loading.datas[d]).slots[k]
                                    ).code =
                                  EntryCode(lfile.datas[d].slots[k].value + 1)

\* read_closures returned true after a data slot was read from a reference
\* to the second closure of the file.
C13_Witness ==
    /\ load = LoadAt("exports", "running")
    /\ lfile.num_closures = 2
    /\ \E d \in 1..Len(loading.datas) :
          /\ loading.datas[d] # NULL
          /\ \E k \in ClosureRefSlots(d) :
                /\ lfile.datas[d].slots[k].value = 1
                /\ ObjAt(memory, ObjAt(memory, loading.datas[d]).slots[k]).inits
                      = 1

\* C17: when read_closures has returned true, every closure of the file was
\* initialised exactly once, with the code base of the procedure its entry
\* names and the data entry its entry names (null when the data vector has
\* none of that id); until then the closures of the entries not yet read
\* are not initialised.
C17_ClosuresInitialised ==
    load.status # "undefined" =>
        /\ \A i \in ClosuresRead :
              /\ ObjAt(memory, loading.closures[i]).kind = "closure"
              /\ ObjAt(memory, loading.closures[i]).inits = 1
              /\ ObjAt(memory, loading.closures[i]).code = EntryCode(i)
              /\ ObjAt(memory, EntryCode(i)).kind = "code"
              /\ ObjAt(memory, loading.closures[i]).data = EntryData(i)
        /\ \A i \in (1..lfile.num_closures) \ ClosuresRead :
              ObjAt(memory, loading.closures[i]).inits = 0
        /\ load.stage = "exports" => ClosuresRead = 1..lfile.num_closures

\* read_closures returned true for two closures, one of them with data.
C17_Witness ==
    /\ load = LoadAt("exports", "running")
    /\ lfile.num_closures = 2
    /\ \E i \in 1..2 : EntryData(i) # NULL
    /\ \A i \in 1..2 : ObjAt(memory, loading.closures[i]).inits = 1

\* ============================================== read_exports: definitions
\* The export entries that name a closure of the library being loaded.
ValidExport(i) == lfile.exports[i].clo_id < lfile.num_closures

\* The export entries of the name of entry i.
SameName(i) ==
    {j \in 1..Len(lfile.exports) :
        lfile.exports[j].name = lfile.exports[i].name}

SecondPassProcs ==
    {i \in 1..Len(rc.procs) :
        rc.procs[i].read \/ rc.procs[i].second # <<>>
                         \/ rc.procs[i].written # <<>>}

\* The procedures the second pass has read to their end.
LoadedProcs == {i \in 1..Len(rc.procs) : rc.procs[i].read}

\* The offsets at which the instructions of block b (counted from 0) of
\* procedure i were written.
InstrOffsets(i, b) ==
    {rc.procs[i].written[k].offset :
        k \in {j \in 1..Len(rc.procs[i].written) :
                 rc.procs[i].written[j].block = b}}

AllInstrOffsets(i) ==
    {rc.procs[i].written[k].offset : k \in 1..Len(rc.procs[i].written)}

Least(S) == CHOOSE x \in S : \A y \in S : x <= y

\* C14: the second pass meets every instruction object of a procedure at the
\* file position and the proc_offset the first pass met it at, with
\* load_debuginfo set or not; when it has read the procedure to its end it
\* has consumed the bytes the first pass consumed and its final proc_offset
\* is the size the procedure was allocated with; every instruction it
\* writes lies below that size.
C14_PassesAgree ==
    \A i \in 1..Len(rc.procs) :
        /\ Len(rc.procs[i].second) <= Len(rc.procs[i].first)
        /\ \A k \in 1..Len(rc.procs[i].second) :
              rc.procs[i].second[k] = rc.procs[i].first[k]
        /\ \A k \in 1..Len(rc.procs[i].written) :
              /\ rc.procs[i].written[k].offset < rc.procs[i].size
              /\ write_instr(rc.procs[i].written[k].offset,
                             rc.procs[i].written[k].imt) <= rc.procs[i].size
        /\ rc.procs[i].read =>
              /\ rc.procs[i].second = rc.procs[i].first
              /\ rc.procs[i].second_end = rc.procs[i].first_end
              /\ rc.procs[i].second_off = rc.procs[i].size

\* read_code returned true with load_debuginfo set for a file of two
\* procedures, the first with a context item before an instruction.
C14_Witness ==
    /\ rc.pass = 3
    /\ cfile.load_debuginfo
    /\ Len(rc.procs) = 2
    /\ \E b \in 1..Len(cfile.procs[1].blocks) :
          /\ Len(cfile.procs[1].blocks[b]) > 1
          /\ cfile.procs[1].blocks[b][1].byte = PZ_CODE_META_CONTEXT
    /\ rc.procs[2].second_off = rc.procs[2].size

C16_BlockOffsetsAreInstructions ==
    \A i \in LoadedProcs :
        /\ \A b \in 1..Len(rc.procs[i].block_offsets) :
              /\ rc.procs[i].block_offsets[b] \in AllInstrOffsets(i)
              /\ rc.procs[i].block_offsets[b] < rc.procs[i].size
        /\ rc.procs[i].block_offsets # <<>> =>
              rc.procs[i].block_offsets[1] = 0
        /\ \A b \in 2..Len(rc.procs[i].block_offsets) :
              rc.procs[i].block_offsets[b - 1] <= rc.procs[i].block_offsets[b]

\* The positions of the entry closure options of the options block.
EntryOptions ==
    {i \in 1..Len(optfile.options) :
        optfile.options[i].type = PZ_OPT_ENTRY_CLOSURE}

\* The last of them.
TheEntryOption ==
    optfile.options[CHOOSE i \in EntryOptions :
                        \A j \in EntryOptions : j <= i]

\* read has returned true.
LibraryLoaded == entryload.stage = "done" /\ entryload.status = "running"

\* C19: the loaded library has an entry exactly when the options block held
\* an entry closure option; the entry is then the closure with the option's
\* closure id (the null closure when the file has no such closure) together
\* with the option's signature, and a library loaded from a file without the
\* option, a file of zero options among them, has no entry.
C19_EntryFromOptions ==
    LibraryLoaded =>
        /\ entryload.library.present <=> EntryOptions # {}
        /\ EntryOptions # {} =>
              /\ entryload.library.signature = TheEntryOption.signature
              /\ entryload.library.closure =
                    IF TheEntryOption.closure_id < optfile.num_closures
                    THEN AddrOf(TheEntryOption.closure_id + 1)
                    ELSE NULL
        /\ EntryOptions = {} => entryload.library = NoLibraryEntry

\* A library loaded with the second closure of the file as its entry, of the
\* signature that takes arguments, from a block that also holds a candidate.
C19_Witness ==
    /\ LibraryLoaded
    /\ Len(optfile.options) = 2
    /\ optfile.options[1].type = PZ_OPT_ENTRY_CANDIDATE
    /\ optfile.options[2].type = PZ_OPT_ENTRY_CLOSURE
    /\ optfile.options[2].signature = PZ_OPT_ENTRY_SIG_ARGS
    /\ optfile.options[2].closure_id = 1
    /\ optfile.num_closures = 2
    /\ entryload.library =
          [present |-> TRUE, signature |-> PZ_OPT_ENTRY_SIG_ARGS,
           closure |-> AddrOf(2)]

\* main has returned.
Exited == process.status = "exited"

\* The position of the first call of read that returned null.
FirstNull ==
    CHOOSE i \in 1..Len(process.reads) :
        /\ process.reads[i] = "null"
        /\ \A j \in 1..(i - 1) : process.reads[j] # "null"

\* C20 (amended): when main returns, the exit code is 0 for the help and
\* version modes and 1 for an argument parse error; in the normal mode it is
\* 1 when initialisation fails (no file is read), 1 when read returns null
\* for a library file or the program file (that file is the last one read
\* and the interpreter is never run), and otherwise the return code of the
\* interpreter, which ran after every library file and the program file was
\* read.  A process that ends in abort() returns no exit code.
C20_MainReturns ==
    /\ Exited /\ cmdline.mode \in {"HELP", "VERSION"} =>
          process.code = 0
    /\ Exited /\ cmdline.mode = "ERROR" => process.code = 1
    /\ Exited /\ cmdline.mode # "NORMAL" =>
          process.init = <<>> /\ process.reads = <<>> /\ process.interp = <<>>
    /\ Exited /\ process.init = <<FALSE>> =>
          process.code = 1 /\ process.reads = <<>> /\ process.interp = <<>>
    /\ Exited /\ (\E i \in 1..Len(process.reads) : process.reads[i] = "null") =>
          /\ process.code = 1
          /\ Len(process.reads) = FirstNull
          /\ process.interp = <<>>
    /\ /\ Exited
       /\ cmdline.mode = "NORMAL"
       /\ process.init = <<TRUE>>
       /\ \A i \in 1..Len(process.reads) : process.reads[i] = "module"
       => /\ Len(process.reads) = cmdline.pzlibs + 1
          /\ process.interp =
                <<[aborted |-> FALSE, retcode |-> process.code]>>
    /\ process.status = "aborted" =>
          \/ process.reads # <<>>
             /\ process.reads[Len(process.reads)] = "abort"
          \/ process.interp = <<InterpAborts>>

\* The first of two library files fails to load: exit code 1, the second
\* library and the program are not read, the interpreter is not run.
C20_Witness ==
    /\ Exited
    /\ cmdline = [mode |-> "NORMAL", pzlibs |-> 2]
    /\ process.reads = <<"null">>
    /\ process.interp = <<>>
    /\ process.code = 1

\* Some call made by main has failed: the argument parse, the
\* initialisation, a read, or an allocation (out of memory).
Failure ==
    \/ cmdline.mode = "ERROR" /\ process.pc # "main"
    \/ process.init = <<FALSE>>
    \/ \E i \in 1..Len(process.reads) : process.reads[i] # "module"
    \/ process.interp = <<InterpAborts>>

\* C20 as stated: every failure kind, out of memory included, ends the
\* process with exit code 1.
C20_FailuresExitOne ==
    Failure => Exited /\ process.code = 1

\* C21: a call of set_heap_size(n) returns false and leaves the heap size
\* as it was when n is smaller than the page size, when n is not a multiple
\* of the page size, or when n is smaller than the part of the heap in use;
\* otherwise it sets the heap size to n and returns true.
C21_SetHeapSizeChecks ==
    [][last'.op = "set_heap_size" =>
          IF \/ last'.size < page_size
             \/ last'.size % page_size # 0
             \/ heap.base_address + last'.size < heap.wilderness_ptr
          THEN ~last'.result /\ heap'.heap_size = heap.heap_size
          ELSE last'.result /\ heap'.heap_size = last'.size]_vars

\* The tag bytes read_proc and read_meta know.
CodeTags ==
    {PZ_CODE_INSTR, PZ_CODE_META_CONTEXT, PZ_CODE_META_CONTEXT_SHORT,
     PZ_CODE_META_CONTEXT_NIL}

\* Some instruction object of the file carries an unknown tag byte.
HasUnknownTag ==
    \E i \in 1..Len(cfile.procs) :
        \E b \in 1..Len(cfile.procs[i].blocks) :
            \E j \in 1..Len(cfile.procs[i].blocks[b]) :
                cfile.procs[i].blocks[b][j].byte \notin CodeTags

\* C22: read_code does not return true for a file with an unknown tag byte
\* in an instruction stream, and when it ends, in the first pass or in the
\* second, it ends by returning failure to its caller.
C22_UnknownTagFails ==
    HasUnknownTag => rc.pass # 3 /\ rc.status \in {"running", "failed"}

\* The file ends before the bytes of its procedure entries are complete.
CutShort == cfile.size < ProcsBytes(cfile.procs, 1)

\* C23: read_code does not return true for a file that ends before the
\* bytes of an item are complete, the payload of a context item that is
\* skipped included, so that read returns failure and makes no library.
C23_ShortReadFails == CutShort => rc.pass # 3

\* The bytes the options i.. take in the file.
RECURSIVE OptionsBytes(_, _)
OptionsBytes(options, i) ==
    IF i > Len(options) THEN 0
    ELSE 4 + options[i].len + OptionsBytes(options, i + 1)

\* read_options has returned true.
OptionsRead == entryload.stage # "options"

\* Some entry closure option of the block has a len other than 5.
BadEntryLen ==
    \E i \in 1..Len(optfile.options) :
        /\ optfile.options[i].type = PZ_OPT_ENTRY_CLOSURE
        /\ optfile.options[i].len # 5

\* C24: when read_options returns true it has consumed 2 bytes and 4 + len
\* bytes for every option; it does not return true for a block with an
\* entry closure option whose len is not 5; and the entry closure it gives
\* is that of the last entry closure option, whatever options of other
\* types (entry candidates included) come before or after it, and none when
\* the block has no entry closure option.
C24_OptionsParsed ==
    /\ OptionsRead =>
          /\ optfile.num_options = Len(optfile.options)
          /\ entryload.consumed = 2 + OptionsBytes(optfile.options, 1)
          /\ entryload.entry_closure =
                IF EntryOptions = {} THEN NoEntry
                ELSE [present |-> TRUE,
                      signature |-> TheEntryOption.signature,
                      closure_id |-> TheEntryOption.closure_id]
    /\ BadEntryLen => ~OptionsRead

\* read_options has skipped an entry candidate of len 5 that follows an
\* entry closure, and has kept the entry closure.
C24_Witness ==
    /\ OptionsRead
    /\ Len(optfile.options) = 2
    /\ optfile.options[1].type = PZ_OPT_ENTRY_CLOSURE
    /\ optfile.options[1].closure_id = 1
    /\ optfile.options[2].type = PZ_OPT_ENTRY_CANDIDATE
    /\ optfile.options[2].len = 5
    /\ entryload.consumed = 20
    /\ entryload.entry_closure.present
    /\ entryload.entry_closure.closure_id = 1

\* The procedure references written for procedure i.
ProcRefs(i) ==
    {k \in 1..Len(rc.procs[i].written) :
        rc.procs[i].written[k].imt = "IMT_PROC_REF"}

\* C25: an instruction of a procedure is written only in the second pass,
\* when every procedure of the file has been allocated, and the immediate
\* written for a reference to procedure j is the code base procedure j was
\* allocated with and keeps, for a j before and for a j after the procedure
\* that holds the reference.
C25_ProcRefsFinal ==
    \A i \in 1..Len(rc.procs) :
        /\ rc.procs[i].written # <<>> =>
              /\ rc.pass >= 2
              /\ Len(rc.procs) = Len(cfile.procs)
        /\ \A k \in ProcRefs(i) :
              /\ rc.procs[i].written[k].imm32 < Len(rc.procs)
              /\ rc.procs[i].written[k].value =
                    rc.procs[rc.procs[i].written[k].imm32 + 1].code

\* read_code returned true for two procedures, the first of which refers to
\* the second and the second to the first.
C25_Witness ==
    /\ rc.pass = 3
    /\ Len(rc.procs) = 2
    /\ ProcRefs(1) # {}
    /\ ProcRefs(2) # {}
    /\ \A k \in ProcRefs(1) :
          /\ rc.procs[1].written[k].imm32 = 1
          /\ rc.procs[1].written[k].value = rc.procs[2].code
    /\ \A k \in ProcRefs(2) :
          /\ rc.procs[2].written[k].imm32 = 0
          /\ rc.procs[2].written[k].value = rc.procs[1].code
    /\ rc.procs[1].code # rc.procs[2].code

\* The state of the word i of the mapping as a cell: beyond the wilderness
\* pointer it is unallocated; below it the bits say whether a cell begins
\* there and which.
CellState(h, i) ==
    IF h.base_address + i * MACHINE_WORD_SIZE >= h.wilderness_ptr
    THEN "Unalloc"
    ELSE IF h.bitmap[i] = 0 THEN "NoCell"
    ELSE IF h.bitmap[i] = GC_BITS_VALID THEN "Free"
    ELSE IF h.bitmap[i] = GC_BITS_VALID + GC_BITS_ALLOCATED
    THEN "AllocatedUnmarked"
    ELSE IF h.bitmap[i] = GC_BITS_VALID + GC_BITS_ALLOCATED + GC_BITS_MARKED
    THEN "AllocatedMarked"
    ELSE "Other"

\* Every word that changes its state from h1 to h2 makes a change of the
\* set allowed.
PhaseOK(h1, h2, allowed) ==
    \A i \in 0..(MapWords - 1) :
        \/ CellState(h1, i) = CellState(h2, i)
        \/ <<CellState(h1, i), CellState(h2, i)>> \in allowed

\* The heap after the mark phase of a collection begun now.
Marked == mark_roots(heap, stack, 0, sp)

\* The words of a new cell that are not its first: its size word and the
\* words after the first.
NewCellWords == {<<"Unalloc", "NoCell">>}

\* What try_allocate, the mark phase and the sweep phase do to the cells of
\* a heap, given the changes allowed to each.
Transitions(in_alloc, in_mark, in_sweep) ==
    /\ \A n \in 1..MaxAllocWords :
          PhaseOK(heap, try_allocate(heap, n).h, in_alloc \cup NewCellWords)
    /\ PhaseOK(heap, Marked, in_mark)
    /\ PhaseOK(Marked, sweep(Marked), in_sweep)

\* C26 (amended): every change of a cell's state made by try_allocate, the
\* mark phase or the sweep phase is one of the five transitions (Unalloc to
\* Allocated-Unmarked and Free to Allocated-Unmarked in alloc,
\* Allocated-Unmarked to Allocated-Marked in mark, Allocated-Marked to
\* Allocated-Unmarked and Allocated-Unmarked to Free in sweep) or one of
\* the three that merging and splitting make: in sweep an unmarked cell,
\* allocated or free, that follows another unmarked cell ceases to be a
\* cell, and in alloc the remainder of a split free cell becomes a free
\* cell.  A free cell is never marked and a marked cell is never freed.
C26_CellTransitions ==
    Ready =>
        Transitions({<<"Unalloc", "AllocatedUnmarked">>,
                     <<"Free", "AllocatedUnmarked">>,
                     <<"NoCell", "Free">>},
                    {<<"AllocatedUnmarked", "AllocatedMarked">>},
                    {<<"AllocatedMarked", "AllocatedUnmarked">>,
                     <<"AllocatedUnmarked", "Free">>,
                     <<"AllocatedUnmarked", "NoCell">>,
                     <<"Free", "NoCell">>})

\* A collection has returned that kept one cell and freed another.
C26_Witness ==
    /\ Ready
    /\ last.op = "collect"
    /\ \E i \in 0..(MapWords - 1) : CellState(heap, i) = "Free"
    /\ \E i \in 0..(MapWords - 1) : CellState(heap, i) = "AllocatedUnmarked"

\* C26 as stated: every change of a cell's state is one of the five
\* transitions, and no cell ceases to be a cell.
C26_FiveTransitions ==
    Ready =>
        Transitions({<<"Unalloc", "AllocatedUnmarked">>,
                     <<"Free", "AllocatedUnmarked">>},
                    {<<"AllocatedUnmarked", "AllocatedMarked">>},
                    {<<"AllocatedMarked", "AllocatedUnmarked">>,
                     <<"AllocatedUnmarked", "Free">>})

\* The cells of the heap as the size words lay them out, from the cell at p
\* on: each cell ends where the size word of the next begins.
RECURSIVE CellsFrom(_, _, _)
CellsFrom(h, p_cell, fuel) ==
    IF p_cell >= h.wilderness_ptr \/ fuel = 0 \/ cell_size(h, p_cell) = 0
    THEN {}
    ELSE {p_cell}
         \cup CellsFrom(h, p_cell + (cell_size(h, p_cell) + 1) * MACHINE_WORD_SIZE,
                        fuel - 1)

\* The base addresses of the allocated cells.
AllocatedBases(h) ==
    {c \in CellsFrom(h, h.base_address + MACHINE_WORD_SIZE, MapWords) :
        HasBit(cell_bits(h, c), GC_BITS_ALLOCATED)}

\* Word-aligned addresses from null to beyond the mapping, and the tags a
\* word may carry in its low bits.
CandidateAddrs ==
    {a * MACHINE_WORD_SIZE :
        a \in 0..((MmapAddress \div MACHINE_WORD_SIZE) + MapWords + 1)}

CandidateTags == {0, 1, TAG_BITS}

\* C27: a candidate word a + t, a word-aligned and t within the tag mask,
\* makes the marking step mark a cell exactly when a is the base address of
\* an allocated cell of the heap, and then it marks that cell; a word that
\* points to a free cell, to a size word, into the interior of a cell or
\* outside [base_address, wilderness_ptr) leaves the heap as it is.
C27_ConservativeMarking ==
    Ready =>
        \A a \in CandidateAddrs, t \in CandidateTags :
            IF a \in AllocatedBases(heap)
            THEN HasBit(cell_bits(mark_word(heap, REMOVE_TAG(a + t)), a),
                        GC_BITS_MARKED)
            ELSE mark_word(heap, REMOVE_TAG(a + t)) = heap

\* A collection has kept the cell its tagged root word points to, beside a
\* free cell and with a cell of two words, which has an interior.
C27_Witness ==
    /\ Ready
    /\ last.op = "collect"
    /\ sp = 0
    /\ stack[0] % (TAG_BITS + 1) = TAG_BITS
    /\ REMOVE_TAG(stack[0]) \in AllocatedBases(heap)
    /\ \E c \in CellsFrom(heap, heap.base_address + MACHINE_WORD_SIZE,
                          MapWords) :
          ~HasBit(cell_bits(heap, c), GC_BITS_ALLOCATED)
    /\ \E c \in CellsFrom(heap, heap.base_address + MACHINE_WORD_SIZE,
                          MapWords) :
          cell_size(heap, c) = 2

\* Every bitmap entry of h with the marked bit has the allocated and the
\* valid bit.
MarkedAreAllocated(h) ==
    \A i \in 0..(MapWords - 1) :
        HasBit(h.bitmap[i], GC_BITS_MARKED) =>
            /\ HasBit(h.bitmap[i], GC_BITS_ALLOCATED)
            /\ HasBit(h.bitmap[i], GC_BITS_VALID)

\* C28: a bitmap entry with the marked bit also has the allocated and the
\* valid bit, in every state the mutator sees and, for a collection begun
\* there, after the marking from each root word and after each iteration of
\* the sweep; the sweep ends without a failed assertion.
C28_MarkedImpliesAllocated ==
    /\ MarkedAreAllocated(heap)
    /\ Ready =>
          /\ \A k \in (-1)..sp :
                MarkedAreAllocated(mark_roots(heap, stack, 0, k))
          /\ \A n \in 0..MapWords :
                MarkedAreAllocated(sweep_first(Marked, n))
          /\ ~sweep(Marked).fault

\* A collection is about to begin on a heap with a cell the root word
\* points to and a cell it does not: the mark phase marks the one, and the
\* sweep has a marked and an unmarked cell to visit.
C28_Witness ==
    /\ Ready
    /\ \E i \in 0..(MapWords - 1) :
          CellState(Marked, i) = "AllocatedMarked"
    /\ \E i \in 0..(MapWords - 1) :
          CellState(Marked, i) = "AllocatedUnmarked"
    /\ \E n \in 1..MapWords :
          sweep_first(Marked, n) # sweep_first(Marked, n - 1)

MarkedOf(marked, d) ==
    [i \in 1..Len(SelectSeq(marked, LAMBDA e : e.cap = d)) |->
        SelectSeq(marked, LAMBDA e : e.cap = d)[i].root]

\* C29: do_trace on a tracer that can collect calls mark_root once for
\* each root slot registered in that tracer, in registration order, and
\* then for each root slot registered in every ancestor tracer up the
\* parent chain: no registration of the chain is skipped, none is marked
\* twice, and a tracer's roots come before those of its ancestors.
C29_TraceWholeChain ==
    trace_log.c # 0 =>
        /\ \A d \in Chain(tracers, trace_log.c) :
              MarkedOf(trace_log.marked, d) = tracers[d].m_roots
        /\ \A i \in 1..Len(trace_log.marked) :
              trace_log.marked[i].cap \in Chain(tracers, trace_log.c)
        /\ \A i, j \in 1..Len(trace_log.marked) :
              i < j => trace_log.marked[j].cap \in
                          Chain(tracers, trace_log.marked[i].cap)

\* do_trace has run on a tracer holding a root whose parent tracer holds
\* one too.
C29_Witness ==
    /\ trace_log.c # 0
    /\ tracers[trace_log.c].m_roots # <<>>
    /\ tracers[trace_log.c].m_parent # NULL
    /\ tracers[tracers[trace_log.c].m_parent].m_roots # <<>>
    /\ Len(trace_log.marked) = 2

\* ============================================ heap: tiling, no overlap
\* The walk of check_heap: from the cell at word i, stepping by the size of
\* the cell and one word; cells is what it visits, ok says that every size
\* met is at least 1 and that the walk ends exactly at the wilderness.
RECURSIVE TileWalk(_, _, _)
TileWalk(h, i, fuel) ==
    IF WordAddr(h, i - 1) = h.wilderness_ptr THEN [cells |-> {}, ok |-> TRUE]
    ELSE IF \/ WordAddr(h, i - 1) > h.wilderness_ptr
            \/ fuel = 0
            \/ i >= MapWords
            \/ h.mem[i - 1] < 1
    THEN [cells |-> {}, ok |-> FALSE]
    ELSE [cells |-> {i} \cup TileWalk(h, i + h.mem[i - 1] + 1, fuel - 1).cells,
          ok |-> TileWalk(h, i + h.mem[i - 1] + 1, fuel - 1).ok]

\* C32: between heap operations the walk from the word after base_address,
\* stepping by the cell's size and one word, visits exactly the words whose
\* bitmap entry has the VALID bit, every size it meets is at least 1, it
\* ends exactly at wilderness_ptr, and every other word below wilderness_ptr
\* has bitmap entry 0.
C32_HeapTiling ==
    /\ TileWalk(heap, 1, MapWords).ok
    /\ TileWalk(heap, 1, MapWords).cells =
          {i \in 0..(MapWords - 1) : HasBit(heap.bitmap[i], GC_BITS_VALID)}
    /\ \A i \in 0..(MapWords - 1) :
          (WordAddr(heap, i) < heap.wilderness_ptr
             /\ i \notin TileWalk(heap, 1, MapWords).cells)
          => heap.bitmap[i] = 0

\* An allocation has just returned on a heap of at least two cells, one of
\* them free, that has words inside cells below the wilderness.
C32_Witness ==
    /\ last.op \in AllocOps
    /\ status = "running"
    /\ FreeCells(heap) # {}
    /\ \E i \in 1..(MapWords - 1) :
          /\ WordAddr(heap, i) < heap.wilderness_ptr
          /\ heap.bitmap[i] = 0
          /\ i \notin TileWalk(heap, 1, MapWords).cells
    /\ Cardinality(TileWalk(heap, 1, MapWords).cells) >= 2

\* The words of cell i: the word of its size and its payload.
Extent(h, i) == {i - 1} \cup PayloadIndices(h, i)

\* C33: the cell alloc returns is allocated, its recorded size is at least
\* the number of words asked, and its words are disjoint from the payload
\* and size words of every other cell allocated at that moment.
C33_NoOverlap ==
    (last.op \in AllocOps /\ last.cell # NULL /\ status = "running") =>
        /\ WordIndex(heap, last.cell) \in AllocatedCells(heap)
        /\ SizeOf(heap, WordIndex(heap, last.cell)) >= WordsAsked(last)
        /\ \A j \in AllocatedCells(heap) \ {WordIndex(heap, last.cell)} :
              Extent(heap, WordIndex(heap, last.cell)) \cap Extent(heap, j)
                  = {}

\* alloc has just returned, after a collection, a cell taken from the free
\* list that lies below another allocated cell.
C33_Witness ==
    /\ last.op \in AllocOps
    /\ last.cell # NULL
    /\ last.collections = 1
    /\ status = "running"
    /\ \E k \in AllocatedCells(heap) : WordIndex(heap, last.cell) < k

\* ======================================================= heap: marking
\* The entries of the bitmap that have the mark bit.
MarkedCells(h) ==
    {i \in 0..(MapWords - 1) : HasBit(h.bitmap[i], GC_BITS_MARKED)}

\* C37: from every heap the mutator can build, cycles and self-references
\* included, the mark phase ends, and it has called mark once for each cell
\* it marked and for no other: the calls are as many as the marked cells,
\* at most as many as the allocated cells, and the marked cells are the
\* reachable ones.
C37_MarkTerminates ==
    status = "running" =>
        /\ Marked.num_marked = Cardinality(MarkedCells(Marked))
        /\ Marked.num_marked <= Cardinality(AllocatedCells(heap))
        /\ MarkedCells(Marked) = Reachable(heap, stack, sp)

\* A collection has just run on a heap in which a reachable cell of two
\* words points to itself and to another cell.
C37_Witness ==
    /\ last.op = "collect"
    /\ status = "running"
    /\ \E i \in Reachable(heap, stack, sp) :
          /\ \E j \in PayloadIndices(heap, i) :
                Untag(heap.mem[j]) = WordAddr(heap, i)
          /\ \E j \in PayloadIndices(heap, i) :
                /\ Untag(heap.mem[j]) # WordAddr(heap, i)
                /\ Targets(heap, {heap.mem[j]}) # {}

\* ==================================================== heap: check_heap
\* C34: with gc_slow_asserts on, every assertion of check_heap holds at the
\* entry and at the exit of every collection, whatever calls of alloc and
\* set_heap_size came before: no call that collects ends in a failed
\* assertion, and the heap it starts from passes check_heap.
C34_CheckHeapPasses ==
    [][(heap.gc_slow_asserts /\ CollectingStep) =>
          /\ check_heap(heap)
          /\ status' # "assert"
          /\ check_heap(heap')]_vars

\* C35: the heap stays inside its mapping: after any calls of set_heap_size
\* and alloc, wilderness_ptr is at most base_address + PZ_GC_MAX_HEAP_SIZE
\* and no cell is made at an index outside the bitmap array.
C35_InsideMapping ==
    /\ heap.wilderness_ptr <= heap.base_address + PZ_GC_MAX_HEAP_SIZE
    /\ ~heap.undefined

\* ==================================================== heap: best fit
\* The free cells that can serve n words.
Fits(h, n) == {f \in FreeCells(h) : SizeOf(h, f) >= n}

\* The place of the free cell f in the free list.
ListPos(h, f) ==
    CHOOSE k \in 1..Len(FreeList(h).cells) : FreeList(h).cells[k] = f

\* The smallest of the free cells that fit, the earliest in the list among
\* those of that size.
BestOf(h, n) ==
    CHOOSE f \in Fits(h, n) :
        \A g \in Fits(h, n) \ {f} :
            \/ SizeOf(h, f) < SizeOf(h, g)
            \/ SizeOf(h, f) = SizeOf(h, g) /\ ListPos(h, f) < ListPos(h, g)

\* try_allocate(n) has served the request from the free cell b of h and
\* left h2.
ServedFrom(h, n, b, h2) ==
    /\ b \in AllocatedCells(h2)
    /\ h2.wilderness_ptr = h.wilderness_ptr
    /\ IF SizeOf(h, b) >= n + 2
       THEN /\ SizeOf(h2, b) = n
            /\ FreeListSet(h2) = (FreeListSet(h) \ {b}) \cup {b + n + 1}
            /\ SizeOf(h2, b + n + 1) = SizeOf(h, b) - n - 1
            /\ SizeOf(h2, b + n + 1) >= 1
       ELSE /\ SizeOf(h2, b) = SizeOf(h, b)
            /\ FreeListSet(h2) = FreeListSet(h) \ {b}

\* try_allocate(n) has found no free cell and gone to the wilderness.
ServedFromWilderness(h, n, cell, h2) ==
    /\ FreeListSet(h2) = FreeListSet(h)
    /\ IF h.wilderness_ptr + (n + 1) * MACHINE_WORD_SIZE
             <= h.base_address + h.heap_size
       THEN /\ cell = h.wilderness_ptr + MACHINE_WORD_SIZE
            /\ h2.wilderness_ptr =
                  h.wilderness_ptr + (n + 1) * MACHINE_WORD_SIZE
       ELSE cell = NULL /\ h2 = h

\* C36: try_allocate(n) serves the request from the free list whenever a
\* free cell has at least n words, from a smallest such cell, the earliest
\* in the list among equals, and takes exactly that cell off the list; it
\* splits the cell into n words and a free remainder of old_size - n - 1
\* words only when old_size >= n + 2; it moves the wilderness only when no
\* free cell fits.
C36_BestFit ==
    [][last'.op = "try_allocate" =>
          IF Fits(heap, last'.size) # {}
          THEN /\ last'.cell = WordAddr(heap, BestOf(heap, last'.size))
               /\ ServedFrom(heap, last'.size, BestOf(heap, last'.size),
                             heap')
          ELSE ServedFromWilderness(heap, last'.size, last'.cell, heap')
      ]_vars

\* try_allocate has just returned a free cell of exactly the size asked
\* while a larger free cell, not split off it, stays on the list.
C36_Witness ==
    /\ last.op = "try_allocate"
    /\ last.cell # NULL
    /\ SizeOf(heap, WordIndex(heap, last.cell)) = last.size
    /\ heap.wilderness_ptr = heap.base_address + PZ_GC_MAX_HEAP_SIZE
    /\ \E f \in FreeCells(heap) :
          /\ SizeOf(heap, f) > last.size
          /\ f # WordIndex(heap, last.cell) + last.size + 1

\* ============================================== read_data: the data vector
\* C40: when read_data has returned true, add_data has been called once for
\* each of the num_datas entries in file order, so that data id d - 1 is
\* entry d of the file, and every entry of the data vector is a non-null
\* object allocated for that entry alone, an array, a struct or a string; an
\* entry whose type is none of the three is not in the vector.
C40_DataDensePopulated ==
    load = LoadAt("code", "running") =>
        /\ Len(loading.datas) = lfile.num_datas
        /\ \A d \in 1..Len(loading.datas) :
              /\ loading.datas[d] # NULL
              /\ loading.datas[d] \in DataAddrs
              /\ lfile.datas[d].type \in
                    {PZ_DATA_ARRAY, PZ_DATA_STRUCT, PZ_DATA_STRING}
              /\ \A e \in 1..Len(loading.datas) :
                    e # d => loading.datas[e] # loading.datas[d]


\* ------------------------------------------------------------------- C31
\* The bytes of the entry that the last call of read_data_slot stored.
LastSlot == lfile.slots[Len(lfile.slots)]

StoredAt(obj, n) == [i \in 1..n |-> obj.bytes[obj.dest + i - 1]]

SlotStored ==
    /\ load.status = "running"
    /\ Len(lfile.slots) > 0

\* C31: a value of the wptr encoding is zero-extended: whatever the 32-bit
\* value v of the file is, values of 2^31 and above included, the
\* pointer-sized slot that read_data_slot has written holds v in its low
\* four bytes and zero in every byte above them.
C31_WptrZeroExtended ==
    (SlotStored /\ LastSlot.enc = pz_data_enc_type_wptr)
        => StoredAt(memory[Len(memory)], MACHINE_WORD_SIZE)
               = zero_extend(LastSlot.raw, MACHINE_WORD_SIZE)

\* ------------------------------------------------------------------- C39
\* C39: every call of read_data_slot changes only the bytes from dest up
\* to dest plus the in-memory width of the slot it was called for, and no
\* byte outside the memory allocated for the entry, whatever the encoding
\* byte the file holds for that slot.
C39_WritesInsideSlot ==
    SlotStored
        => \A o \in memory[Len(memory)].written :
              /\ o >= memory[Len(memory)].dest
              /\ o < memory[Len(memory)].dest + slot_stride(lfile)
              /\ o < memory[Len(memory)].cell


\* ------------------------------------------------------------------- C38
\* C38: read_code returns false only when a read of the file failed: for a
\* file that is whole it does not fail, in particular not for a procedure
\* whose code has the size 0 (no blocks, or blocks of nothing but
\* metadata).
C38_FailsOnlyOnFailedRead == rc.status = "failed" => CutShort

====
